---- MODULE Spec2Model ----
(***************************************************************************)
(* SMS webhook service (app_sms.py over sqlite_store.py): ingestion, the   *)
(* id counter and its recovery at startup, the durable sms table, the      *)
(* in-memory INBOX, the subscriber fan-out and the scheduling of the       *)
(* background analysis.                                                    *)
(*                                                                         *)
(* Scheduling.  All handlers are coroutines of one asyncio event loop: a   *)
(* coroutine runs until it awaits something that really suspends.  Inside  *)
(* add_to_inbox nothing suspends (the lock is free whenever it is asked    *)
(* for, _broadcast has no await, STORE.add_sms is a synchronous call), so  *)
(* the frame `cur` is the one coroutine the loop is running; another       *)
(* handler starts only when `cur` is idle or done.  The steps inside a     *)
(* handler are kept apart so that their order is visible.                  *)
(*                                                                         *)
(* SpecOverlap does not rely on the free lock and the await-free           *)
(* _broadcast: it takes the two awaits of add_to_inbox (async with         *)
(* _inbox_lock, await _broadcast) as points where the loop may switch to   *)
(* another handler, which gives every interleaving of concurrent calls     *)
(* that the await structure of the code admits.                            *)
(***************************************************************************)
EXTENDS Integers, Sequences, FiniteSets, TLC

VARIABLES
    boot,          \* _init_next_id_from_store: "pending" | "ok" | "raised" | "nostore"
    STORE,         \* TRUE: build_store_from_env returned a SQLiteStore; FALSE: None
    sms,           \* the durable sms table: a set of rows, id_num unique
    INBOX,         \* the in-memory list of rows
    _next_id,      \* the id counter
    _inbox_lock,   \* TRUE while the asyncio.Lock is held
    _subscribers,  \* the list of subscriber queues (queue identities)
    queues,        \* queue identity -> the events queued in it
    conns,         \* queue identity -> TRUE while its stream connection is open
    tasks,         \* the _auto_analyze tasks created in this process
    cur,           \* the frame of the handler the event loop is running
    parked,        \* the frames of the handlers suspended at an await of add_to_inbox
    pipes,         \* the _auto_analyze tasks of this process, one record per task
    analysis,      \* the durable analysis table: a set of rows, id unique
    _NOTIFY_MSISDN, \* the notification recipient, a string (<<>> when none)
    sent,          \* history: the send requests issued to the SMS provider
    frames,        \* queue identity -> the frames emitted on its stream connection
    recent,        \* the last answer of get_recent
    epoch,         \* number of restarts so far
    ingested,      \* history: the number of messages ingested over all processes
    published,     \* history: the events handed to _broadcast in this process
    spent,         \* history: <<epoch, id>> of every id whose STORE.add_sms raised
    gone,          \* the queue identities whose client has left the open connection
    saved,         \* the last call of STORE.save_analysis and what it returned
    config,        \* the last call of set_notify_config and its answer
    trunc,         \* the last call of _truncate_utf8 or _build_summary_sms
    norm,          \* the last call of normalize_sms
    page           \* the last read of get_analysis_page

vars == <<boot, STORE, sms, INBOX, _next_id, _inbox_lock, _subscribers, queues,
          conns, tasks, cur, parked, pipes, analysis, _NOTIFY_MSISDN, sent, frames,
          recent, epoch, ingested, published, spent, gone, saved, config, trunc,
          norm, page>>

\* the state of the analysis pipeline and of the stream output
pipeVars == <<pipes, analysis, _NOTIFY_MSISDN, sent, frames>>

\* the state of the connections' clients and the records of the last calls
auxVars == <<gone, saved, config, trunc, norm, page>>

(* ------------------------------ bounds -------------------------------- *)
\* messages ingested over all processes
MaxMsgs == 3
\* restarts of the process
MaxRestarts == 1
\* stream connections (queue identities)
MaxSubs == 2
\* events published in the fan-out specification
MaxEvents == 2
\* keep-alive frames emitted on the open connections
MaxBeats == 1
\* connections open at a time in the event stream specification
MaxOpen == 1
\* valid items a failed batch leaves unread
MaxAfter == 1
\* handlers suspended inside add_to_inbox at one time
MaxParked == 1
\* messages ingested in the pipeline specification
MaxPipes == 1
\* rows of the analysis table in the store specification
MaxRows == 3
\* distinct values of ts among the records handed to save_analysis
MaxTs == 2
\* characters of a string handed to _truncate_utf8
MaxLen == 3
\* the largest byte budget handed to _truncate_utf8
MaxBudget == 5
\* characters of a short text handed to normalize_sms
MaxText == 4
\* the channel capacity the queues are held against
TestedCapacity == 1

(* ----------------------------- constants ------------------------------ *)
\* the hard cap of get_recent: min(int(limit), 500)
HARD_CAP == 500
\* the default limit of get_recent
DEFAULT_LIMIT == 50
\* the byte budget of the notification summary: max_bytes: int = 180
SUMMARY_MAX_BYTES == 180

None == "None"
Texts == {"a"}
Queues == 1..MaxSubs

(* ------------------------------ helpers ------------------------------- *)
Range(s) == {s[i] : i \in 1..Len(s)}

Min2(a, b) == IF a <= b THEN a ELSE b

Max2(a, b) == IF a >= b THEN a ELSE b

MaxOf(S) == CHOOSE x \in S : \A y \in S : y <= x

\* list.remove(q): the first occurrence is removed; ValueError (absent) is passed over
RECURSIVE ListRemove(_, _)
ListRemove(s, q) ==
    IF s = <<>> THEN <<>>
    ELSE IF Head(s) = q THEN Tail(s)
    ELSE <<Head(s)>> \o ListRemove(Tail(s), q)

\* seq[:n] of Python: a negative n counts from the end
PySlice(s, n) ==
    IF n >= 0 THEN SubSeq(s, 1, Min2(n, Len(s)))
    ELSE SubSeq(s, 1, Max2(Len(s) + n, 0))

(* ------------------------------ strings ------------------------------ *)
\* A str is the sequence of its characters; "" is <<>>.
Whitespace == {" "}

\* variant: the string is taken as it is
StripNothing(s) == s

RECURSIVE LStrip(_)
LStrip(s) == IF s # <<>> /\ Head(s) \in Whitespace THEN LStrip(Tail(s)) ELSE s

RECURSIVE RStrip(_)
RStrip(s) ==
    IF s # <<>> /\ s[Len(s)] \in Whitespace THEN RStrip(SubSeq(s, 1, Len(s) - 1)) ELSE s

\* str.strip(): leading and trailing whitespace removed
Strip(s) == RStrip(LStrip(s))

\* The characters of the strings that are cut, with the number of bytes of their
\* UTF-8 encoding: ASCII, a two-byte letter, a Hangul syllable, the ellipsis
\* U+2026 and a four-byte symbol.  A str that UTF-8 cannot encode (a lone
\* surrogate) is no text and is left out.
Width == [c \in {"a", " ", "e2", "k3", "ell", "g4"} |->
            CASE c \in {"a", " "} -> 1
              [] c = "e2" -> 2
              [] c \in {"k3", "ell"} -> 3
              [] c = "g4" -> 4]

Chars == DOMAIN Width

\* the ellipsis
ELL == "ell"

\* the bytes of the encoding of character c: k is the place of the byte in it
CharBytes(c) == [k \in 1..Width[c] |-> [ch |-> c, k |-> k]]

\* s.encode('utf-8'): the bytes of the characters one after the other (the string
\* is halved so that long strings stay within the evaluation depth)
RECURSIVE Encode(_)
Encode(s) ==
    IF s = <<>> THEN <<>>
    ELSE IF Len(s) = 1 THEN CharBytes(s[1])
    ELSE LET h == Len(s) \div 2
         IN Encode(SubSeq(s, 1, h)) \o Encode(SubSeq(s, h + 1, Len(s)))

\* a complete sequence of bytes begins at place n of b
StartsChar(b, n) ==
    /\ b[n].k = 1
    /\ n + Width[b[n].ch] - 1 <= Len(b)
    /\ \A j \in 1..Width[b[n].ch] : b[n + j - 1] = [ch |-> b[n].ch, k |-> j]

\* b.decode('utf-8', errors='ignore'): a complete sequence gives its character, a
\* byte that is in no complete sequence is dropped
DecodeIgnore(b) ==
    LET starts == SelectSeq([n \in 1..Len(b) |-> n], LAMBDA n : StartsChar(b, n))
    IN [i \in 1..Len(starts) |-> b[starts[i]].ch]

\* s can be encoded
Encodable(s) == \A k \in 1..Len(s) : s[k] \in Chars

(* --------------------------- sqlite_store.py -------------------------- *)
\* INSERT ... ON CONFLICT(id_num) DO UPDATE: the row of id_num is replaced
AddSms(table, id_num, row) ==
    {r \in table : r.id_num # id_num}
        \cup {[id_num |-> id_num, message |-> row.message]}

\* variant: the number of rows is taken for the largest id
GetSmsCount(table) == Cardinality(table)

\* SELECT COALESCE(MAX(id_num), 0) FROM sms
GetSmsMaxId(table) ==
    IF table = {} THEN 0 ELSE MaxOf({r.id_num : r \in table})

\* rows of the table in ascending id_num order
RECURSIVE AscIds(_)
AscIds(S) ==
    IF S = {} THEN <<>>
    ELSE LET m == CHOOSE x \in S : \A y \in S : x <= y
         IN <<m>> \o AscIds(S \ {m})

\* SELECT ... WHERE id_num > ? ORDER BY id_num ASC LIMIT ?  (a negative LIMIT is no limit)
GetSmsRecent(table, since_id, limit) ==
    LET ids == AscIds({r.id_num : r \in table} \cap {i \in Int : i > since_id})
    IN IF limit < 0 THEN ids ELSE SubSeq(ids, 1, Min2(limit, Len(ids)))

\* A value of receivedAt.  A timestamp text is the record of what it says: its form
\* (calendar: a calendar date with a time, which datetime.fromisoformat reads;
\* ordinal: the ISO 8601 date of year and day of year, which it does not read;
\* bad: no timestamp), its zone (Z, offset or none), the local time t and the offset
\* off in hours.  Values that are no text: missing (None), empty (""), number.
Stamp(form, zone, t, off) == [form |-> form, zone |-> zone, t |-> t, off |-> off]

MissingStamp == Stamp("missing", "none", "none", 0)

\* ts = None
NoTs == Stamp("none", "none", "none", 0)

\* the texts a form field can hold
TextStamps ==
    {Stamp("empty", "none", "none", 0), Stamp("bad", "none", "none", 0),
     Stamp("calendar", "Z", "t1", 0), Stamp("calendar", "offset", "t1", 9),
     Stamp("ordinal", "Z", "t1", 0)}

\* form.get("receivedAt") or form.get("sentAt")
FormStamps == (TextStamps \ {Stamp("empty", "none", "none", 0)}) \cup {MissingStamp}

\* item.get("receivedAt"): any JSON value
JsonStamps == TextStamps \cup {MissingStamp, Stamp("number", "none", "none", 0)}

\* received_at_iso.replace("Z", "+00:00")
ReplaceZ(x) == IF x.zone = "Z" THEN [x EXCEPT !.zone = "offset", !.off = 0] ELSE x

\* datetime.fromisoformat(text) returns: the text is one it reads
Readable(x) == x.form = "calendar"

\* datetime.fromisoformat(text): the local time and, for an aware value, the offset
FromIsoFormat(x) == [t |-> x.t, aware |-> x.zone # "none", off |-> x.off]

\* dt.isoformat()
IsoFormat(dt) ==
    Stamp("calendar", IF dt.aware THEN "offset" ELSE "none", dt.t, dt.off)

\* datetime.utcnow().isoformat(): the ingestion time, a text without zone
UtcNow == Stamp("calendar", "none", "now", 0)

\* add_to_inbox: ts = None; if received_at_iso: try: ts = datetime.fromisoformat(
\* received_at_iso.replace("Z", "+00:00")).isoformat(); except Exception: ts = None.
\* A number has no replace: AttributeError, caught like the ValueError of a text
\* that cannot be read.
TsOf(x) ==
    IF x.form \in {"missing", "empty"} THEN NoTs
    ELSE IF x.form = "number" \/ ~Readable(ReplaceZ(x)) THEN NoTs
    ELSE IsoFormat(FromIsoFormat(ReplaceZ(x)))

\* variant: the time given is dropped
ReceivedAtNow(ts) == UtcNow

\* ts or datetime.utcnow().isoformat()
ReceivedAt(ts) == IF ts = NoTs THEN UtcNow ELSE ts

(* ------------------------------ app_sms.py ---------------------------- *)
Idle ==
    [pc |-> "idle", path |-> "none", trigger |-> FALSE, more |-> FALSE,
     inResults |-> FALSE, message |-> None, received_at_iso |-> MissingStamp,
     ts |-> NoTs, id |-> 0, wrote |-> FALSE,
     resp |-> "none", after |-> 0, dead |-> <<>>]

LoopFree == cur.pc \in {"idle", "done"}

\* the event {"type": t, "id": i}
Event(t, i) == [type |-> t, id |-> i]

\* variant: the event is put twice into each queue
RECURSIVE PutAllTwice(_, _, _, _)
PutAllTwice(subs, qs, event, failing) ==
    IF subs = <<>> THEN qs
    ELSE LET q == Head(subs)
             qs1 == IF q \in failing THEN qs
                    ELSE [qs EXCEPT ![q] = @ \o <<event, event>>]
         IN PutAllTwice(Tail(subs), qs1, event, failing)

\* q.put_nowait(event) over list(_subscribers); a queue whose put raises is dead
\* and is removed from _subscribers afterwards.  failing: the queues whose put raises.
RECURSIVE PutAll(_, _, _, _)
PutAll(subs, qs, event, failing) ==
    IF subs = <<>> THEN qs
    ELSE LET q == Head(subs)
             qs1 == IF q \in failing THEN qs
                    ELSE [qs EXCEPT ![q] = Append(@, event)]
         IN PutAll(Tail(subs), qs1, event, failing)

RECURSIVE RemoveAll(_, _)
RemoveAll(subs, dead) ==
    IF dead = <<>> THEN subs
    ELSE RemoveAll(ListRemove(subs, Head(dead)), Tail(dead))

DeadOf(subs, failing) == SelectSeq(subs, LAMBDA q : q \in failing)

RECURSIVE PutUntilFailure(_, _, _, _)
PutUntilFailure(subs, qs, event, failing) ==
    IF subs = <<>> \/ Head(subs) \in failing THEN qs
    ELSE PutUntilFailure(Tail(subs), [qs EXCEPT ![Head(subs)] = Append(@, event)],
                         event, failing)

\* variant: the exception of put_nowait is not caught, the loop ends at the first
\* queue that refuses
BroadcastStopsAtFailure(subs, qs, event, failing) ==
    [queues |-> PutUntilFailure(subs, qs, event, failing), subscribers |-> subs]

\* _broadcast(event): the new (queues, _subscribers)
BroadcastTo(subs, qs, event, failing) ==
    [queues |-> PutAll(subs, qs, event, failing),
     subscribers |-> RemoveAll(subs, DeadOf(subs, failing))]

\* no call of STORE.save_analysis yet
NoSave == [id |-> None, text |-> None, ts |-> 0, ret |-> None]

\* no call of set_notify_config yet
\* rec: the recipient of the last call answered ok; refused: the last call was
\* answered 400
NoConfig == [rec |-> [kind |-> "missing"], called |-> FALSE, refused |-> FALSE]

\* no call of _truncate_utf8 or _build_summary_sms yet
NoTrunc == [fn |-> "none"]

\* no call of normalize_sms yet
NoNorm == [fn |-> "none"]

\* no read of get_analysis_page yet
NoPage == [fn |-> "none"]

Init ==
    /\ boot = "pending"
    /\ STORE \in BOOLEAN
    /\ sms = {}
    /\ INBOX = <<>>
    /\ _next_id = 1
    /\ _inbox_lock = FALSE
    /\ _subscribers = <<>>
    /\ queues = [q \in Queues |-> <<>>]
    /\ conns = [q \in Queues |-> FALSE]
    /\ tasks = <<>>
    /\ cur = Idle
    /\ parked = <<>>
    /\ pipes = <<>>
    /\ analysis = {}
    /\ _NOTIFY_MSISDN = <<>>
    /\ sent = <<>>
    /\ frames = [q \in Queues |-> <<>>]
    /\ recent = [since_id |-> 0, limit |-> 0, ids |-> <<>>, via |-> "none"]
    /\ epoch = 0
    /\ ingested = 0
    /\ published = <<>>
    /\ spent = {}
    /\ gone = {}
    /\ saved = NoSave
    /\ config = NoConfig
    /\ trunc = NoTrunc
    /\ norm = NoNorm
    /\ page = NoPage

\* _init_next_id_from_store: the task created at import; it is the first thing the
\* loop runs.  ok = FALSE: STORE.get_sms_max_id raised.
InitNextIdFromStore ==
    /\ boot = "pending"
    /\ \/ /\ ~STORE
          /\ boot' = "nostore"
          /\ UNCHANGED _next_id
       \/ /\ STORE
          /\ boot' = "ok"
          /\ LET max_id == GetSmsMaxId(sms)
             IN _next_id' = IF max_id >= 1 THEN max_id + 1 ELSE _next_id
       \/ /\ STORE
          /\ boot' = "raised"
          /\ UNCHANGED _next_id
    /\ UNCHANGED <<STORE, sms, INBOX, _inbox_lock, _subscribers, queues, conns,
                   tasks, cur, recent, epoch, ingested, published, spent, parked,
                   pipeVars, auxVars>>

\* served requests start once the startup task has run
Serving == boot # "pending"

Elements ==
    {[obj |-> FALSE, results |-> "absent"]}
        \cup {[obj |-> TRUE, results |-> r] : r \in {"absent", "empty", "notlist", "list"}}

Items ==
    {[obj |-> FALSE, text |-> None]}
        \cup {[obj |-> TRUE, text |-> t] : t \in Texts \cup {None}}

\* e.get("results") if isinstance(e, dict) else None
ResultsOf(e) == IF e.obj THEN e.results ELSE "absent"

\* the frame of a handler that has answered
Done(path, resp, after) ==
    [Idle EXCEPT !.pc = "done", !.path = path, !.resp = resp, !.after = after]

\* inbound_sms, content-type application/json: events = body if list else [body].
\* The body is read by the loops in order, so each element is drawn when its loop
\* reaches it.  more: the loop over events has elements left to read.
ReceiveJson ==
    /\ Serving /\ LoopFree
    /\ cur' = [Idle EXCEPT !.pc = "loop", !.path = "json", !.more = TRUE]
    /\ UNCHANGED <<boot, STORE, sms, INBOX, _next_id, _inbox_lock, _subscribers,
                   queues, conns, tasks, recent, epoch, ingested, published,
                   spent, parked,
                   pipeVars, auxVars>>

\* for e in events: results = ...; if results and isinstance(results, list).
\* isList = FALSE: the body was a single object, e is the only element.
JsonElement ==
    /\ cur.pc = "loop" /\ cur.path = "json" /\ ~cur.inResults /\ cur.more
    /\ \E e \in Elements, isList \in BOOLEAN :
          cur' = [cur EXCEPT !.more = isList, !.inResults = (ResultsOf(e) = "list")]
    /\ UNCHANGED <<boot, STORE, sms, INBOX, _next_id, _inbox_lock, _subscribers,
                   queues, conns, tasks, recent, epoch, ingested, published,
                   spent, parked,
                   pipeVars, auxVars>>

\* for item in results: await add_to_inbox(message=item.get("text") ...,
\* received_at_iso=item.get("receivedAt"), trigger_auto=True)
JsonItemObjectOf(items, stamps) ==
    /\ cur.pc = "loop" /\ cur.path = "json" /\ cur.inResults
    /\ \E item \in items, stamp \in stamps :
          /\ item.obj
          /\ ingested < MaxMsgs
          /\ cur' = [cur EXCEPT !.pc = "lock", !.message = item.text,
                                !.received_at_iso = stamp, !.ts = TsOf(stamp),
                                !.trigger = TRUE, !.id = 0, !.wrote = FALSE]
    /\ UNCHANGED <<boot, STORE, sms, INBOX, _next_id, _inbox_lock, _subscribers,
                   queues, conns, tasks, recent, epoch, ingested, published,
                   spent, parked, pipeVars, auxVars>>

\* items without receivedAt
JsonItemObject == JsonItemObjectOf(Items, {MissingStamp})

\* items of one text with any value of receivedAt
JsonItemStamped == JsonItemObjectOf({[obj |-> TRUE, text |-> "a"]}, JsonStamps)

\* item.get on an item that is no object raises AttributeError, which nothing catches:
\* the handler ends with an error response and the rest of the batch is not read
\* (after: the valid items that followed in the batch).
JsonItemOther ==
    /\ cur.pc = "loop" /\ cur.path = "json" /\ cur.inResults
    /\ \E item \in Items, n \in 0..MaxAfter :
          /\ ~item.obj
          /\ cur' = Done("json", "ERR", n)
    /\ UNCHANGED <<boot, STORE, sms, INBOX, _next_id, _inbox_lock, _subscribers,
                   queues, conns, tasks, recent, epoch, ingested, published,
                   spent, parked, pipeVars, auxVars>>

\* the loop over results is through
JsonItemEnd ==
    /\ cur.pc = "loop" /\ cur.path = "json" /\ cur.inResults
    /\ cur' = [cur EXCEPT !.inResults = FALSE]
    /\ UNCHANGED <<boot, STORE, sms, INBOX, _next_id, _inbox_lock, _subscribers,
                   queues, conns, tasks, recent, epoch, ingested, published,
                   spent, parked, pipeVars, auxVars>>

\* inbound_sms: the loop over the items of one results list
JsonItem ==
    \/ JsonItemObject
    \/ JsonItemOther
    \/ JsonItemEnd

\* inbound_sms, content-type application/x-www-form-urlencoded: trigger_auto=False,
\* received_at_iso=form.get("receivedAt") or form.get("sentAt")
ReceiveFormOf(texts, stamps) ==
    /\ Serving /\ LoopFree
    /\ ingested < MaxMsgs
    /\ \E m \in texts, stamp \in stamps :
          cur' = [Idle EXCEPT !.pc = "lock", !.path = "form", !.message = m,
                              !.received_at_iso = stamp, !.ts = TsOf(stamp),
                              !.trigger = FALSE]
    /\ UNCHANGED <<boot, STORE, sms, INBOX, _next_id, _inbox_lock, _subscribers,
                   queues, conns, tasks, recent, epoch, ingested, published,
                   spent, parked,
                   pipeVars, auxVars>>

\* forms without receivedAt and sentAt
ReceiveForm == ReceiveFormOf(Texts \cup {None}, {MissingStamp})

\* forms of one text with any text of receivedAt
ReceiveFormStamped == ReceiveFormOf({"a"}, FormStamps)

\* inbound_sms, any other content type: message=str(raw), trigger_auto left at its
\* default (True)
ReceiveRaw ==
    /\ Serving /\ LoopFree
    /\ ingested < MaxMsgs
    /\ \E m \in Texts :
          cur' = [Idle EXCEPT !.pc = "lock", !.path = "raw", !.message = m,
                              !.trigger = TRUE]
    /\ UNCHANGED <<boot, STORE, sms, INBOX, _next_id, _inbox_lock, _subscribers,
                   queues, conns, tasks, recent, epoch, ingested, published,
                   spent, parked,
                   pipeVars, auxVars>>

\* add_to_inbox: async with _inbox_lock (entry)
Acquire ==
    /\ cur.pc = "lock"
    /\ ~_inbox_lock
    /\ _inbox_lock' = TRUE
    /\ cur' = [cur EXCEPT !.pc = "crit"]
    /\ UNCHANGED <<boot, STORE, sms, INBOX, _next_id, _subscribers, queues, conns,
                   tasks, recent, epoch, ingested, published, spent, parked,
                   pipeVars, auxVars>>

\* the row of add_to_inbox
Row(id, message, received_at) ==
    [id |-> id, message |-> message, received_at |-> received_at]

\* variant: the row is not kept
InboxAppendLost(inbox, row) == inbox

\* INBOX.append(row)
InboxAppend(inbox, row) == Append(inbox, row)

\* variant: the counter does not advance
BumpStuck(n) == n

\* variant: the counter advances by two
BumpByTwo(n) == n + 2

\* _next_id += 1
Bump(n) == n + 1

\* variant: the increment sits inside the try, so a failed write leaves the counter
CriticalSectionKeepsId(ok) ==
    /\ INBOX' = Append(INBOX, [id |-> _next_id, message |-> cur.message,
                                received_at |-> UtcNow])
    /\ IF STORE /\ ok
       THEN sms' = AddSms(sms, _next_id, [message |-> cur.message])
       ELSE UNCHANGED sms
    /\ spent' = IF STORE /\ ~ok THEN spent \cup {<<epoch, _next_id>>} ELSE spent
    /\ _next_id' = IF STORE /\ ~ok THEN _next_id ELSE _next_id + 1
    /\ ingested' = ingested + 1
    /\ cur' = [cur EXCEPT !.pc = "bcast", !.id = _next_id, !.wrote = (STORE /\ ok)]

\* add_to_inbox: the body of the critical section.
\* ok = FALSE: STORE.add_sms raised (the exception is passed over).
CriticalSection(ok) ==
    /\ INBOX' = InboxAppend(INBOX, Row(_next_id, cur.message, ReceivedAt(cur.ts)))
    /\ IF STORE /\ ok
       THEN sms' = AddSms(sms, _next_id, [message |-> cur.message])
       ELSE UNCHANGED sms
    /\ spent' = IF STORE /\ ~ok THEN spent \cup {<<epoch, _next_id>>} ELSE spent
    /\ _next_id' = Bump(_next_id)
    /\ ingested' = ingested + 1
    /\ cur' = [cur EXCEPT !.pc = "bcast", !.id = _next_id, !.wrote = (STORE /\ ok)]

\* add_to_inbox: the critical section and the release of the lock
Critical ==
    /\ cur.pc = "crit"
    /\ \E ok \in BOOLEAN : (STORE \/ ok) /\ CriticalSection(ok)
    /\ _inbox_lock' = FALSE
    /\ UNCHANGED <<boot, STORE, _subscribers, queues, conns, tasks, recent, epoch,
                   published, parked,
                   pipeVars, auxVars>>

\* add_to_inbox: await _broadcast({"type": "sms", "id": row["id"]})
Broadcast(failing) ==
    /\ cur.pc = "bcast"
    /\ LET r == BroadcastTo(_subscribers, queues, Event("sms", cur.id), failing)
       IN /\ queues' = r.queues
          /\ _subscribers' = r.subscribers
    /\ published' = Append(published, Event("sms", cur.id))
    /\ cur' = [cur EXCEPT !.pc = "sched", !.dead = DeadOf(_subscribers, failing)]
    /\ UNCHANGED <<boot, STORE, sms, INBOX, _next_id, _inbox_lock, conns, tasks,
                   recent, epoch, ingested, spent, parked,
                   pipeVars, auxVars>>

\* _schedule_auto_analyze(message): create_task(_auto_analyze(message))
ScheduleAutoAnalyze(ts, message) == Append(ts, message)

\* variant: the task is awaited where it is created
NewPipeRunInline(message, id) ==
    [pc |-> "done", message |-> message, sms |-> id, aid |-> None, ran |-> <<>>,
     failed |-> {}, sends |-> 0, to |-> <<>>]

\* the steps of _auto_analyze_blocking, in the order of the code
Steps == <<"RETRIEVE", "GENERATE", "PERSIST", "NOTIFY">>

\* a task of _auto_analyze that the loop has not started yet.  sms: the id of the
\* message the task was created for; ran: the steps entered so far; failed: the steps
\* that raised; aid: the value _auto_analyze_blocking returns; sends: the send
\* requests the task issued; to: the recipient _send_infobip_sms was called with
NewPipe(message, id) ==
    [pc |-> "new", message |-> message, sms |-> id, aid |-> None, ran |-> <<>>,
     failed |-> {}, sends |-> 0, to |-> <<>>]

\* add_to_inbox: if trigger_auto: _schedule_auto_analyze(message); then the return
\* to inbound_sms
Schedule ==
    /\ cur.pc = "sched"
    /\ tasks' = IF cur.trigger THEN ScheduleAutoAnalyze(tasks, cur.message) ELSE tasks
    /\ pipes' = IF cur.trigger THEN Append(pipes, NewPipe(cur.message, cur.id))
                 ELSE pipes
    /\ cur' = [cur EXCEPT !.pc = "loop", !.dead = <<>>]
    /\ UNCHANGED <<boot, STORE, sms, INBOX, _next_id, _inbox_lock, _subscribers,
                   queues, conns, recent, epoch, ingested, published, spent, parked,
                   analysis, _NOTIFY_MSISDN, sent, frames, auxVars>>

\* add_to_inbox: _schedule_auto_analyze(message) raised (create_task on a loop that
\* does not take tasks, then asyncio.run inside the running loop): except Exception:
\* pass, no task is created
ScheduleRaises ==
    /\ cur.pc = "sched"
    /\ cur.trigger
    /\ cur' = [cur EXCEPT !.pc = "loop", !.dead = <<>>]
    /\ UNCHANGED <<boot, STORE, sms, INBOX, _next_id, _inbox_lock, _subscribers,
                   queues, conns, tasks, recent, epoch, ingested, published, spent,
                   parked, pipeVars, auxVars>>

\* inbound_sms: return PlainTextResponse("OK"), when the loops are through
Respond ==
    /\ cur.pc = "loop" /\ ~cur.inResults
    /\ cur' = Done(cur.path, "OK", 0)
    /\ UNCHANGED <<boot, STORE, sms, INBOX, _next_id, _inbox_lock, _subscribers,
                   queues, conns, tasks, recent, epoch, ingested, published,
                   spent, parked,
                   pipeVars, auxVars>>

\* sorted(rows, key=id, reverse=True): descending ids, equal ids in list order
RECURSIVE SortDesc(_)
SortDesc(s) ==
    IF s = <<>> THEN <<>>
    ELSE LET i == CHOOSE i \in 1..Len(s) :
                      /\ \A j \in 1..Len(s) : s[j] <= s[i]
                      /\ \A j \in 1..(i - 1) : s[j] < s[i]
         IN <<s[i]>> \o SortDesc(SubSeq(s, 1, i - 1) \o SubSeq(s, i + 1, Len(s)))

InboxIds(inbox) == [i \in 1..Len(inbox) |-> inbox[i].id]

\* get_recent, in-memory path
RecentFromInbox(inbox, since_id, limit) ==
    PySlice(SortDesc(SelectSeq(InboxIds(inbox), LAMBDA i : i > since_id)),
            Min2(limit, HARD_CAP))

Limits == {1, DEFAULT_LIMIT}

NoRecent == [since_id |-> 0, limit |-> 0, ids |-> <<>>, via |-> "none"]

\* the limits of the cap: negative, zero, small, the default, above the cap
AnyLimits == {-1, 0, 1, DEFAULT_LIMIT, HARD_CAP + 1}

\* get_recent(limit, since_id) with limit drawn from limits.  ok = FALSE:
\* STORE.get_sms_recent raised.
GetRecentOf(limits) ==
    /\ Serving /\ LoopFree
    /\ \E since_id \in 0..MaxMsgs, limit \in limits, ok \in BOOLEAN :
          /\ STORE \/ ok
          /\ recent' =
                IF STORE /\ ok
                THEN [since_id |-> since_id, limit |-> limit, via |-> "store",
                      ids |-> GetSmsRecent(sms, since_id, Min2(limit, HARD_CAP))]
                ELSE [since_id |-> since_id, limit |-> limit, via |-> "inbox",
                      ids |-> RecentFromInbox(INBOX, since_id, limit)]
    /\ UNCHANGED <<boot, STORE, sms, INBOX, _next_id, _inbox_lock, _subscribers,
                   queues, conns, tasks, cur, epoch, ingested, published,
                   spent, parked,
                   pipeVars, auxVars>>

GetRecent == GetRecentOf(Limits)

GetRecentAny == GetRecentOf(AnyLimits)

\* a frame of the event stream: "event: <event>\ndata: <data>\n\n"
Frame(event, data) == [event |-> event, data |-> data]

\* str(evt.get("id")): the id of an sms event is an int, that of an analysis event is
\* already a str
Payload(evt) == IF evt.type = "sms" THEN ToString(evt.id) ELSE evt.id

\* sms_stream.event_gen: q = asyncio.Queue(); _subscribers.append(q); the first frame
Subscribe ==
    /\ Serving /\ LoopFree
    /\ \E q \in Queues :
          /\ ~conns[q]
          /\ conns' = [conns EXCEPT ![q] = TRUE]
          /\ queues' = [queues EXCEPT ![q] = <<>>]
          /\ _subscribers' = Append(_subscribers, q)
          /\ frames' = [frames EXCEPT ![q] = <<Frame("ping", "connected")>>]
    /\ UNCHANGED <<boot, STORE, sms, INBOX, _next_id, _inbox_lock, tasks, cur,
                   recent, epoch, ingested, published, spent, parked,
                   pipes, analysis, _NOTIFY_MSISDN, sent, auxVars>>

\* the client of an open stream connection goes away.  The generator learns of it
\* at its next `await request.is_disconnected()`, which it reaches after q.get()
\* returned or timed out; until then its queue stays registered.
ClientGone ==
    /\ \E q \in Queues :
          /\ conns[q]
          /\ q \notin gone
          /\ gone' = gone \cup {q}
    /\ UNCHANGED <<boot, STORE, sms, INBOX, _next_id, _inbox_lock, _subscribers,
                   queues, conns, tasks, cur, recent, epoch, ingested, published,
                   spent, parked, pipeVars, saved, config, trunc, norm, page>>

\* variant: the generator ends without the finally clause
CloseKeepsQueue(q) ==
    /\ LoopFree
    /\ conns[q]
    /\ conns' = [conns EXCEPT ![q] = FALSE]
    /\ gone' = gone \ {q}
    /\ UNCHANGED <<boot, STORE, sms, INBOX, _next_id, _inbox_lock, tasks, cur,
                   recent, epoch, ingested, published, spent, parked, _subscribers,
                   queues, frames, pipes, analysis, _NOTIFY_MSISDN, sent, saved,
                   config, trunc, norm, page>>

\* sms_stream.event_gen of queue q ends (break after is_disconnected, an exception,
\* a cancellation); finally: _subscribers.remove(q), ValueError passed over
Close(q) ==
    /\ LoopFree
    /\ conns[q]
    /\ conns' = [conns EXCEPT ![q] = FALSE]
    /\ queues' = [queues EXCEPT ![q] = <<>>]
    /\ _subscribers' = ListRemove(_subscribers, q)
    /\ frames' = [frames EXCEPT ![q] = <<>>]
    /\ gone' = gone \ {q}
    /\ UNCHANGED <<boot, STORE, sms, INBOX, _next_id, _inbox_lock, tasks, cur,
                   recent, epoch, ingested, published, spent, parked,
                   pipes, analysis, _NOTIFY_MSISDN, sent, saved, config, trunc, norm, page>>

\* the generator of some stream connection ends
Disconnect == \E q \in Queues : Close(q)

\* variant: the generator takes the event that was put last
EmitLast(q) ==
    /\ LoopFree
    /\ conns[q]
    /\ queues[q] # <<>>
    /\ queues' = [queues EXCEPT ![q] = SubSeq(@, 1, Len(@) - 1)]
    /\ frames' = [frames EXCEPT
                     ![q] = Append(@, Frame("sms", Payload(queues[q][Len(queues[q])])))]
    /\ UNCHANGED <<boot, STORE, sms, INBOX, _next_id, _inbox_lock, _subscribers, conns,
                   tasks, cur, recent, epoch, ingested, published, spent, parked,
                   pipes, analysis, _NOTIFY_MSISDN, sent, auxVars>>

\* sms_stream.event_gen: evt = await q.get(); yield "event: sms\ndata: <id>".
\* The generator goes on reading its queue while the connection is open, whether or
\* not the queue is still in _subscribers.
EmitOn(q) ==
    /\ LoopFree
    /\ conns[q]
    /\ queues[q] # <<>>
    /\ queues' = [queues EXCEPT ![q] = Tail(@)]
    /\ frames' = [frames EXCEPT ![q] = Append(@, Frame("sms", Payload(Head(queues[q]))))]
    /\ UNCHANGED <<boot, STORE, sms, INBOX, _next_id, _inbox_lock, _subscribers, conns,
                   tasks, cur, recent, epoch, ingested, published, spent, parked,
                   pipes, analysis, _NOTIFY_MSISDN, sent, auxVars>>

\* the generator of some stream connection emits the event at the head of its queue
Emit == \E q \in Queues : EmitOn(q)

\* the frame of a wait that timed out
KeepAlive == Frame("ping", "keep-alive")

\* the keep-alive frames emitted on the open connections
Beats ==
    Cardinality({<<q, k>> \in Queues \X (1..(MaxEvents + MaxBeats + 1)) :
                    k <= Len(frames[q]) /\ frames[q][k] = KeepAlive})

\* variant: the timeout drops the event that waits
HeartbeatDrops(q) ==
    /\ LoopFree
    /\ conns[q]
    /\ Beats < MaxBeats
    /\ frames' = [frames EXCEPT ![q] = Append(@, KeepAlive)]
    /\ queues' = [queues EXCEPT ![q] = IF @ = <<>> THEN @ ELSE Tail(@)]
    /\ UNCHANGED <<boot, STORE, sms, INBOX, _next_id, _inbox_lock, _subscribers, conns,
                   tasks, cur, recent, epoch, ingested, published, spent, parked,
                   pipes, analysis, _NOTIFY_MSISDN, sent, auxVars>>

\* sms_stream.event_gen: except asyncio.TimeoutError: yield "event: ping\ndata:
\* keep-alive".  wait_for(q.get(), timeout=30) timed out: q.get() was cancelled before
\* it took an event, so what has arrived since stays in the queue.
HeartbeatOn(q) ==
    /\ LoopFree
    /\ conns[q]
    /\ Beats < MaxBeats
    /\ frames' = [frames EXCEPT ![q] = Append(@, KeepAlive)]
    /\ UNCHANGED <<boot, STORE, sms, INBOX, _next_id, _inbox_lock, _subscribers,
                   queues, conns, tasks, cur, recent, epoch, ingested, published,
                   spent, parked, pipes, analysis, _NOTIFY_MSISDN, sent, auxVars>>

\* the wait of some stream connection times out
Heartbeat == \E q \in Queues : HeartbeatOn(q)

\* uuid4(): an id no row of the table has
Uuid(table) == "u" \o ToString(Cardinality(table) + 1)

\* rec.get("normalized"), rec.get("hits"), rec.get("context"), rec.get("answer"): the
\* record of an analysis of text with the time ts.  The time is the place of its text
\* in the order of TEXT values, which is the order of ORDER BY ts.
AnalysisRecord(text, normalized, ts) ==
    [sms |-> text, normalized |-> normalized, hits |-> "hits", context |-> "context",
     answer |-> "answer", ts |-> ts]

\* the rowid of the row of id: the one it has, or the largest of the table plus one
Rowid(table, id) ==
    IF \E r \in table : r.id = id THEN (CHOOSE r \in table : r.id = id).rowid
    ELSE MaxOf({r.rowid : r \in table} \cup {0}) + 1

\* VALUES (?, ?, ?, ?, ?, ?, ?): the row of the columns of rec under id
StoredRow(id, rec, rowid) ==
    [id |-> id, sms |-> rec.sms, normalized |-> rec.normalized, hits |-> rec.hits,
     context |-> rec.context, answer |-> rec.answer, ts |-> rec.ts, rowid |-> rowid]

\* variant: the row is not written
SaveAnalysisLost(table, id, rec) == table

\* variant: a plain INSERT that keeps the row the id had
SaveAnalysisInsertOnly(table, id, rec) ==
    table \cup {StoredRow(id, rec, MaxOf({r.rowid : r \in table} \cup {0}) + 1)}

\* INSERT INTO analysis ... ON CONFLICT(id) DO UPDATE: the row of id is replaced
SaveAnalysis(table, id, rec) ==
    {r \in table : r.id # id} \cup {StoredRow(id, rec, Rowid(table, id))}

\* SELECT COUNT(1) FROM analysis: the total of get_analysis_page
AnalysisTotal(table) == Cardinality(table)

\* the ids a caller of save_analysis passes: one of its own, one the store gave out
GivenIds == {"k1", "u1"}

SavedTexts == {"a", "b"}

\* STORE.save_analysis(rec): aid = rec.get("id") or str(uuid4()), the upsert, return
\* str(aid).  id = None: the record has no id.  ok = FALSE: the statement raised
\* (e.g. ts missing, database locked), nothing is written.
SaveAnalysisOf(ids, texts, stamps) ==
    /\ STORE
    /\ \E id \in ids, text \in texts, ts \in stamps, ok \in BOOLEAN :
          LET aid == IF id = None THEN Uuid(analysis) ELSE id
              rec == AnalysisRecord(text, [raw |-> text], ts)
          IN /\ Cardinality({r.id : r \in analysis} \cup {aid}) <= MaxRows
             /\ analysis' = IF ok THEN SaveAnalysis(analysis, aid, rec) ELSE analysis
             /\ saved' = [id |-> id, text |-> text, ts |-> ts,
                          ret |-> IF ok THEN aid ELSE None]
    /\ UNCHANGED <<boot, STORE, sms, INBOX, _next_id, _inbox_lock, _subscribers,
                   queues, conns, tasks, cur, recent, epoch, ingested, published,
                   spent, parked, pipes, _NOTIFY_MSISDN, sent, frames, gone, config,
                   trunc, norm, page>>

\* saves with and without an id, of two texts, at one time
SaveAnalysisCall == SaveAnalysisOf(GivenIds \cup {None}, SavedTexts, {1})

\* saves of one text at any of the times: new rows, and the first row saved again.
\* The table is written, then read.
SaveAnalysisAt == page = NoPage /\ SaveAnalysisOf({None, "u1"}, {"a"}, 1..MaxTs)

\* ORDER BY ts DESC: the rows by descending ts.  Rows of equal ts come in the order
\* of the backward scan of idx_analysis_ts, which is by descending rowid.
RECURSIVE ByTsDesc(_)
ByTsDesc(table) ==
    IF table = {} THEN <<>>
    ELSE LET top == CHOOSE r \in table :
                       \A q \in table :
                           q.ts < r.ts \/ (q.ts = r.ts /\ q.rowid <= r.rowid)
         IN <<top>> \o ByTsDesc(table \ {top})

\* SELECT id, sms, normalized, hits, context, answer, ts: the item of a row
PageItem(r) ==
    [id |-> r.id, sms |-> r.sms, normalized |-> r.normalized, hits |-> r.hits,
     context |-> r.context, answer |-> r.answer, ts |-> r.ts]

\* variant: the offset is the page number
GetAnalysisPageByOne(table, page_number, page_size) ==
    LET offset == Max2(1, page_number) - 1
        rows == ByTsDesc(table)
        last == Min2(offset + Max2(1, page_size), Len(rows))
    IN [items |-> [k \in 1..Max2(0, last - offset) |-> PageItem(rows[offset + k])],
        total |-> AnalysisTotal(table)]

\* get_analysis_page(page, page_size): page = max(1, page), page_size = max(1,
\* page_size), offset = (page - 1) * page_size, the count and LIMIT ? OFFSET ?
GetAnalysisPage(table, page_number, page_size) ==
    LET offset == (Max2(1, page_number) - 1) * Max2(1, page_size)
        rows == ByTsDesc(table)
        last == Min2(offset + Max2(1, page_size), Len(rows))
    IN [items |-> [k \in 1..Max2(0, last - offset) |-> PageItem(rows[offset + k])],
        total |-> AnalysisTotal(table)]

\* the page numbers and page sizes of the reads
PageNumbers == -1..(MaxRows + 1)

PageSizes == -1..2

\* STORE.get_analysis_page(page, page_size) on the table as it is.  The function
\* changes nothing: page holds the one read that is looked at.
GetAnalysisPageCall ==
    /\ STORE
    /\ page = NoPage
    /\ \E page_number \in PageNumbers, page_size \in PageSizes :
          LET res == GetAnalysisPage(analysis, page_number, page_size)
          IN page' = [fn |-> "page", page |-> page_number, page_size |-> page_size,
                      items |-> res.items, total |-> res.total]
    /\ UNCHANGED <<boot, STORE, sms, INBOX, _next_id, _inbox_lock, _subscribers,
                   queues, conns, tasks, cur, recent, epoch, ingested, published,
                   spent, parked, pipeVars, gone, saved, config, trunc, norm>>

\* variant: the exception of a step leaves the task
AfterFailureRaises(step) == "raised"

\* variant: the exception of a step is passed over and the next step runs
AfterFailureGoesOn(step) ==
    IF step = "RETRIEVE" THEN "generate"
    ELSE IF step = "GENERATE" THEN "persist"
    ELSE IF step = "PERSIST" THEN "notify"
    ELSE "back"

\* variant: a failed send is tried again
AfterFailureRetries(step) ==
    IF step = "NOTIFY" THEN "post"
    ELSE IF step = "PERSIST" THEN "notify"
    ELSE "back"

\* where _auto_analyze_blocking goes on after a step raised: the try around PERSIST
\* passes the exception over and NOTIFY follows; the outer except (RETRIEVE,
\* GENERATE) and the one around NOTIFY lead to the return
AfterFailure(step) == IF step = "PERSIST" THEN "notify" ELSE "back"

\* what the steps of the pipeline leave alone
PipeFrame ==
    UNCHANGED <<boot, STORE, sms, INBOX, _next_id, _inbox_lock, _subscribers, queues,
                conns, tasks, cur, recent, epoch, ingested, published, spent, parked,
                frames, auxVars>>

\* _auto_analyze: the loop starts the task, await asyncio.to_thread(...) hands
\* _auto_analyze_blocking to a worker thread; text = (message or "").strip() and
\* if not text: return
PipeStart ==
    /\ LoopFree
    /\ \E i \in 1..Len(pipes) :
          /\ pipes[i].pc = "new"
          /\ pipes' = [pipes EXCEPT ![i].pc =
                          IF pipes[i].message = None THEN "back" ELSE "retrieve"]
    /\ PipeFrame
    /\ UNCHANGED <<analysis, _NOTIFY_MSISDN, sent>>

\* _auto_analyze_blocking on its worker thread: hits = _hybrid_search(...).
\* ok = FALSE: the call raised, the outer except returns None.
Retrieve ==
    /\ \E i \in 1..Len(pipes), ok \in BOOLEAN :
          /\ pipes[i].pc = "retrieve"
          /\ pipes' = [pipes EXCEPT ![i].ran = Append(@, "RETRIEVE"),
                                    ![i].pc = IF ok THEN "generate"
                                              ELSE AfterFailure("RETRIEVE"),
                                    ![i].failed = IF ok THEN @ ELSE @ \cup {"RETRIEVE"}]
    /\ PipeFrame
    /\ UNCHANGED <<analysis, _NOTIFY_MSISDN, sent>>

\* answer = _chat_answer(text, ctx_items).  ok = FALSE: the call raised.
Generate ==
    /\ \E i \in 1..Len(pipes), ok \in BOOLEAN :
          /\ pipes[i].pc = "generate"
          /\ pipes' = [pipes EXCEPT ![i].ran = Append(@, "GENERATE"),
                                    ![i].pc = IF ok THEN "persist"
                                              ELSE AfterFailure("GENERATE"),
                                    ![i].failed = IF ok THEN @ ELSE @ \cup {"GENERATE"}]
    /\ PipeFrame
    /\ UNCHANGED <<analysis, _NOTIFY_MSISDN, sent>>

\* n = {"raw": text}; rec_out = {"sms": text, "normalized": n, "hits": hits,
\* "context": ctx_items, "answer": answer, "ts": _now_iso()}.  The clock has moved on
\* since the rows of the table were saved.
RecOut(text) ==
    AnalysisRecord(text, [raw |-> text], MaxOf({r.ts : r \in analysis} \cup {0}) + 1)

\* try: if STORE is not None: aid = STORE.save_analysis(rec_out); except: pass.
\* ok = FALSE: save_analysis raised, aid stays None and the function goes on.
Persist ==
    /\ \E i \in 1..Len(pipes), ok \in BOOLEAN :
          /\ pipes[i].pc = "persist"
          /\ STORE \/ ok
          /\ LET id == Uuid(analysis)
             IN /\ analysis' = IF STORE /\ ok
                               THEN SaveAnalysis(analysis, id, RecOut(pipes[i].message))
                               ELSE analysis
                /\ pipes' = [pipes EXCEPT
                                ![i].ran = Append(@, "PERSIST"),
                                ![i].pc = IF STORE /\ ~ok THEN AfterFailure("PERSIST")
                                          ELSE "notify",
                                ![i].aid = IF STORE /\ ok THEN id ELSE None,
                                ![i].failed = IF STORE /\ ~ok THEN @ \cup {"PERSIST"}
                                              ELSE @]
    /\ PipeFrame
    /\ UNCHANGED <<_NOTIFY_MSISDN, sent>>

\* variant: characters are counted for bytes
TruncateChars(s, max_bytes) == PySlice(s, max_bytes)

\* _truncate_utf8(s, max_bytes); the except branch (encode raised) is s[:max_bytes]
TruncateUtf8(s, max_bytes) ==
    IF ~Encodable(s) THEN PySlice(s, max_bytes)
    ELSE LET raw == Encode(s)
         IN IF Len(raw) <= max_bytes THEN s
            ELSE LET cut == PySlice(raw, max_bytes)
                     out == DecodeIgnore(cut)
                 IN IF Len(Encode(out)) + Len(Encode(<<ELL>>)) <= max_bytes
                    THEN Append(out, ELL)
                    ELSE out

\* _ai_summarize_short(text, ctx_items, max_bytes).  content: what the model answered,
\* <<>> when the client is not configured, the call raised or the answer was empty.
\* The result None is written <<>>: the caller only tests `if ai`.
AiSummarizeShort(text, content, max_bytes) ==
    IF text = <<>> THEN <<>>
    ELSE LET cand == Strip(content)
         IN IF cand # <<>> THEN TruncateUtf8(cand, max_bytes) ELSE <<>>

\* the text _build_summary_sms hands to _truncate_utf8: the answer of the model if
\* there is one, else the stripped answer text, else the title of the first item
SummaryText(answer_text, content, title) ==
    IF AiSummarizeShort(answer_text, content, SUMMARY_MAX_BYTES) # <<>>
    THEN Strip(content)
    ELSE IF Strip(answer_text) # <<>> THEN Strip(answer_text)
    ELSE Strip(title)

\* _build_summary_sms(answer_text, ctx_items, max_bytes=180).  title: the title (or
\* id) of ctx_items[0], <<>> when there is no item
BuildSummarySms(answer_text, content, title) ==
    LET ai == AiSummarizeShort(answer_text, content, SUMMARY_MAX_BYTES)
    IN IF ai # <<>> THEN ai
       ELSE LET base0 == Strip(answer_text)
                base == IF base0 = <<>> THEN Strip(title) ELSE base0
            IN TruncateUtf8(base, SUMMARY_MAX_BYTES)

\* the strings over Chars of at most n characters
StringsUpTo(n) == UNION {[1..k -> Chars] : k \in 0..n}

\* _truncate_utf8 applied to a string and a byte budget.  The function keeps no
\* state: trunc holds the one call that is looked at.
Truncate ==
    /\ trunc = NoTrunc
    /\ \E s \in StringsUpTo(MaxLen), max_bytes \in 0..MaxBudget :
          trunc' = [fn |-> "truncate", s |-> s, max_bytes |-> max_bytes,
                    out |-> TruncateUtf8(s, max_bytes)]
    /\ UNCHANGED <<boot, STORE, sms, INBOX, _next_id, _inbox_lock, _subscribers,
                   queues, conns, tasks, cur, recent, epoch, ingested, published,
                   spent, parked, pipeVars, gone, saved, config, norm, page>>

\* n times the character c
Rep(c, n) == [k \in 1..n |-> c]

\* texts around the budget of the summary: at it, one byte over it, over it with a
\* cut that falls inside a character
LongTexts ==
    {Rep("a", SUMMARY_MAX_BYTES), Rep("a", SUMMARY_MAX_BYTES + 1),
     Rep("k3", SUMMARY_MAX_BYTES \div 3), Rep("k3", SUMMARY_MAX_BYTES \div 3 + 1),
     Rep("a", SUMMARY_MAX_BYTES - 2) \o <<"g4">>,
     Rep("a", SUMMARY_MAX_BYTES - 3) \o <<"g4">>,
     <<" ">> \o Rep("a", SUMMARY_MAX_BYTES) \o <<" ">>}

\* _build_summary_sms applied to an answer text, an answer of the model and a title
BuildSummary ==
    /\ trunc = NoTrunc
    /\ \E answer_text \in LongTexts \cup StringsUpTo(1),
          content \in LongTexts \cup StringsUpTo(1),
          title \in StringsUpTo(1) :
          trunc' = [fn |-> "summary", s |-> SummaryText(answer_text, content, title),
                    max_bytes |-> SUMMARY_MAX_BYTES,
                    out |-> BuildSummarySms(answer_text, content, title)]
    /\ UNCHANGED <<boot, STORE, sms, INBOX, _next_id, _inbox_lock, _subscribers,
                   queues, conns, tasks, cur, recent, epoch, ingested, published,
                   spent, parked, pipeVars, gone, saved, config, norm, page>>

(* ------------------------------ query.py ------------------------------ *)
\* Texts are sequences of characters.  A Latin letter, a digit or a sign is written
\* as itself, a Hangul syllable by its romanised name in capitals.
Hangul ==
    {"GEON", "SU", "SI", "GAN", "BUN", "PO", "TEU", "AH", "UT", "IN", "GAE", "TONG",
     "CHWI", "SO", "CHOE", "GEUN", "NAE", "SIN", "GYU", "BAN", "YEONG", "JI", "YEON",
     "PEU", "RO", "BI", "JEO", "NING", "MO", "BA", "IL", "GYE", "YAK", "GYEOL", "HAP",
     "SANG", "PUM", "GA", "JOK", "TEO", "NET", "YO", "GEUM", "JE", "BON", "JEUNG",
     "WON", "BEON", "HO", "BYEON", "GYEONG", "BU", "SEO", "SEU", "SA", "JEON", "DONG",
     "UI", "KE", "YI", "TI", "EH", "EL", "YU", "PEUL", "REO", "AL", "TTEUL", "SIL",
     "PAE", "OH", "RYU"}

UpperSeq ==
    <<"A", "B", "C", "D", "E", "F", "G", "H", "I", "J", "K", "L", "M", "N", "O", "P",
      "Q", "R", "S", "T", "U", "V", "W", "X", "Y", "Z">>

LowerSeq ==
    <<"a", "b", "c", "d", "e", "f", "g", "h", "i", "j", "k", "l", "m", "n", "o", "p",
      "q", "r", "s", "t", "u", "v", "w", "x", "y", "z">>

DigitSeq == <<"0", "1", "2", "3", "4", "5", "6", "7", "8", "9">>

Latin == Range(UpperSeq) \cup Range(LowerSeq)

Digits == Range(DigitSeq)

\* \w
WordChars == Hangul \cup Latin \cup Digits \cup {"_"}

\* the place of c in the sequence s
IndexIn(s, c) == CHOOSE k \in 1..Len(s) : s[k] = c

\* c.upper()
Upper(c) == IF c \in Range(LowerSeq) THEN UpperSeq[IndexIn(LowerSeq, c)] ELSE c

\* the characters that c matches under re.IGNORECASE
CaseSet(c) ==
    IF c \in Range(LowerSeq) THEN {c, UpperSeq[IndexIn(LowerSeq, c)]}
    ELSE IF c \in Range(UpperSeq) THEN {c, LowerSeq[IndexIn(UpperSeq, c)]}
    ELSE {c}

\* A regular expression without alternation is a sequence of atoms: a class of
\* characters repeated min..max times (max = -1: no upper bound; g: inside the
\* capturing group), or the word boundary \b.
Atom(cls, min, max, g) == [kind |-> "c", cls |-> cls, min |-> min, max |-> max, g |-> g]

\* \b
WordBoundary == <<[kind |-> "b", cls |-> {}, min |-> 0, max |-> 0, g |-> FALSE]>>

\* \s*
Spaces == <<Atom(Whitespace, 0, -1, FALSE)>>

\* a literal of a pattern compiled with re.IGNORECASE
Lit(s) == [k \in 1..Len(s) |-> Atom(CaseSet(s[k]), 1, 1, FALSE)]

\* a literal of a pattern compiled without flags
LitExact(s) == [k \in 1..Len(s) |-> Atom({s[k]}, 1, 1, FALSE)]

\* the same atoms, inside the capturing group
Grouped(atoms) == [k \in 1..Len(atoms) |-> [atoms[k] EXCEPT !.g = TRUE]]

\* \b at place i of t: between a word character and none
AtBoundary(t, i) ==
    LET before == i > 1 /\ t[i - 1] \in WordChars
        after == i <= Len(t) /\ t[i] \in WordChars
    IN before # after

\* the numbers of repetitions of atom a that the text allows at place i
Reps(a, t, i) ==
    {n \in a.min..(Len(t) - i + 1) :
        /\ a.max = -1 \/ n <= a.max
        /\ \A j \in 0..(n - 1) : t[i + j] \in a.cls}

\* the places where a match of atoms that begins at place i can end
RECURSIVE Ends(_, _, _)
Ends(atoms, t, i) ==
    IF atoms = <<>> THEN {i}
    ELSE LET a == Head(atoms)
         IN IF a.kind = "b"
            THEN IF AtBoundary(t, i) THEN Ends(Tail(atoms), t, i) ELSE {}
            ELSE UNION {Ends(Tail(atoms), t, i + n) : n \in Reps(a, t, i)}

\* pat.search(t) for a pattern given by its alternatives: is there a match
Search(alts, t) ==
    \E k \in 1..Len(alts), i \in 1..(Len(t) + 1) : Ends(alts[k], t, i) # {}

\* the text of the capturing group in the match of atoms that begins at place i:
\* every quantifier takes the most repetitions that still let the rest match
RECURSIVE GroupAt(_, _, _)
GroupAt(atoms, t, i) ==
    IF atoms = <<>> THEN <<>>
    ELSE LET a == Head(atoms)
         IN IF a.kind = "b" THEN GroupAt(Tail(atoms), t, i)
            ELSE LET n == MaxOf({m \in Reps(a, t, i) : Ends(Tail(atoms), t, i + m) # {}})
                 IN (IF a.g THEN SubSeq(t, i, i + n - 1) ELSE <<>>)
                        \o GroupAt(Tail(atoms), t, i + n)

\* m = pat.search(t); m.group(1): the leftmost match.  No match is [found |-> FALSE].
Group1(atoms, t) ==
    LET starts == {i \in 1..(Len(t) + 1) : Ends(atoms, t, i) # {}}
    IN IF starts = {} THEN [found |-> FALSE, text |-> <<>>]
       ELSE [found |-> TRUE,
             text |-> GroupAt(atoms, t, CHOOSE i \in starts : \A j \in starts : i <= j)]

\* PROCESS_SYNONYMS, in the order of the list
PROCESS_SYNONYMS ==
    <<[val |-> "ACTIVATION",
       alts |-> <<Lit(<<"SIN", "GYU">>) \o Spaces \o Lit(<<"GAE", "TONG">>),
                  Lit(<<"GAE", "TONG">>)>>],
      [val |-> "PROVISIONING",
       alts |-> <<Lit(<<"H", "L", "R">>), Lit(<<"H", "S", "S">>),
                  Lit(<<"BAN", "YEONG">>) \o Spaces \o Lit(<<"JI", "YEON">>),
                  Lit(<<"PEU", "RO", "BI">>),
                  Lit(<<"PEU", "RO", "BI", "JEO", "NING">>)>>],
      [val |-> "CONTRACT",
       alts |-> <<Lit(<<"MO", "BA", "IL">>) \o Spaces \o Lit(<<"A", "P">>),
                  Lit(<<"MO", "BA", "IL", "A", "P">>),
                  Lit(<<"GYE", "YAK">>)>>],
      [val |-> "BUNDLE",
       alts |-> <<Lit(<<"GYEOL", "HAP", "SANG", "PUM">>), Lit(<<"GYEOL", "HAP">>),
                  Lit(<<"GA", "JOK", "GYEOL", "HAP">>),
                  Lit(<<"IN", "TEO", "NET">>) \o Spaces \o Lit(<<"GYEOL", "HAP">>)>>],
      [val |-> "RATEPLAN",
       alts |-> <<Lit(<<"YO", "GEUM", "JE">>), Lit(<<"YO", "GEUM">>)>>],
      [val |-> "CANCELLATION",
       alts |-> <<Lit(<<"GAE", "TONG", "CHWI", "SO">>), Lit(<<"CHWI", "SO">>)>>],
      [val |-> "USIM",
       alts |-> <<Lit(<<"U", "S", "I", "M">>), Lit(<<"I", "C", "C", "I", "D">>),
                  Lit(<<"I", "M", "S", "I">>)>>],
      [val |-> "IDENTITY",
       alts |-> <<Lit(<<"BON", "IN", "IN", "JEUNG">>), Lit(<<"K", "Y", "C">>),
                  Lit(<<"SIN", "WON">>)>>],
      [val |-> "CHANGE_NUMBER",
       alts |-> <<Lit(<<"BEON", "HO">>) \o Spaces \o Lit(<<"BYEON", "GYEONG">>)>>],
      [val |-> "ADDON",
       alts |-> <<Lit(<<"BU", "GA", "SEO", "BI", "SEU">>), Lit(<<"BU", "GA">>)>>],
      [val |-> "PRE_AUTH",
       alts |-> <<Lit(<<"SA", "JEON">>) \o Spaces \o Lit(<<"DONG", "UI">>),
                  Lit(<<"SA", "JEON", "DONG", "UI">>),
                  Lit(<<"p", "r", "e">>) \o <<Atom(Whitespace \cup {"_", "-"}, 0, -1, FALSE)>>
                      \o Lit(<<"a", "u", "t", "h">>)>>],
      [val |-> "AUTH",
       alts |-> <<Lit(<<"IN", "JEUNG">>), Lit(<<"a", "u", "t", "h">>)>>]>>

\* DIRECTION_SYNONYMS
DIRECTION_SYNONYMS ==
    <<[val |-> "PORT_OUT",
       alts |-> <<Lit(<<"PO", "TEU">>) \o Spaces \o Lit(<<"AH", "UT">>),
                  Lit(<<"PO", "TEU", "AH", "UT">>),
                  Lit(<<"p", "o", "r", "t">>) \o Spaces \o Lit(<<"o", "u", "t">>)>>],
      [val |-> "PORT_IN",
       alts |-> <<Lit(<<"PO", "TEU">>) \o Spaces \o Lit(<<"IN">>),
                  Lit(<<"PO", "TEU", "IN">>),
                  Lit(<<"p", "o", "r", "t">>) \o Spaces \o Lit(<<"i", "n">>)>>]>>

\* OPERATOR_SYNONYMS
OPERATOR_SYNONYMS ==
    <<[val |-> "KT",
       alts |-> <<WordBoundary \o Lit(<<"K", "T">>) \o WordBoundary,
                  Lit(<<"KE", "YI", "TI">>)>>],
      [val |-> "SKT",
       alts |-> <<WordBoundary \o Lit(<<"S", "K", "T">>) \o WordBoundary,
                  Lit(<<"EH", "SEU", "KE", "YI", "TI">>)>>],
      [val |-> "LGU+",
       alts |-> <<Lit(<<"L", "G", "U", "+">>),
                  Lit(<<"EL", "JI", "YU", "PEUL", "REO", "SEU">>),
                  Lit(<<"U", "+">>)>>],
      [val |-> "MVNO",
       alts |-> <<Lit(<<"M", "V", "N", "O">>), Lit(<<"AL", "TTEUL">>)>>]>>

\* ERROR_CODE_PAT = re.compile(r"\b([A-Z]{2}\d{4})\b", re.IGNORECASE)
ERROR_CODE_PAT ==
    WordBoundary \o <<Atom(Latin, 2, 2, TRUE), Atom(Digits, 4, 4, TRUE)>> \o WordBoundary

\* the backslash
Backslash == "\\"

\* the text \s* of a raw string written with two backslashes: the regular
\* expression reads it as a backslash followed by any number of the letter s
BackslashS == LitExact(<<Backslash>>) \o <<Atom({"s"}, 0, -1, FALSE)>>

\* likewise (\\d+): a group of a backslash followed by one or more letters d
BackslashD == Grouped(LitExact(<<Backslash>>) \o <<Atom({"d"}, 1, -1, FALSE)>>)

\* COUNT_PAT = re.compile(r"(?:건수)\\s*[:\\-]?\\s*(\\d+)")
COUNT_PAT ==
    LitExact(<<"GEON", "SU">>) \o BackslashS
        \o <<Atom({":", Backslash, "-"}, 0, 1, FALSE)>> \o BackslashS \o BackslashD

\* HOURS_PAT = re.compile(r"(\\d+)\\s*(?:\\uC2DC\\uAC04)"): \\uC2DC is a backslash
\* followed by the six characters uC2DC
HOURS_PAT ==
    BackslashD \o BackslashS
        \o LitExact(<<Backslash, "u", "C", "2", "D", "C", Backslash, "u", "A", "C", "0", "4">>)

\* MINS_PAT = re.compile(r"(\\d+)\\s*(?:\\uBD84)")
MINS_PAT ==
    BackslashD \o BackslashS \o LitExact(<<Backslash, "u", "B", "D", "8", "4">>)

\* variant: the loop has no break, the last matching pattern stays
LastMatch(list, t) ==
    LET hits == {k \in 1..Len(list) : Search(list[k].alts, t)}
    IN IF hits = {} THEN None
       ELSE list[CHOOSE k \in hits : \A j \in hits : k >= j].val

\* for pat, val in LIST: if pat.search(t): res[...] = val; break
FirstMatch(list, t) ==
    LET hits == {k \in 1..Len(list) : Search(list[k].alts, t)}
    IN IF hits = {} THEN None
       ELSE list[CHOOSE k \in hits : \A j \in hits : k <= j].val

\* int(s) can be computed: s is a non-empty string of digits
IsNumber(s) == s # <<>> /\ \A k \in 1..Len(s) : s[k] \in Digits

\* int(s) for a string of digits
RECURSIVE IntOf(_)
IntOf(s) ==
    IF s = <<>> THEN 0
    ELSE 10 * IntOf(SubSeq(s, 1, Len(s) - 1)) + (IndexIn(DigitSeq, s[Len(s)]) - 1)

\* "lit" in t
Contains(t, lit) ==
    \E i \in 1..(Len(t) - Len(lit) + 1) : SubSeq(t, i, i + Len(lit) - 1) = lit

\* normalize_sms(text).  None is written "None" for operator, direction and process,
\* <<>> for error_code and {} for count and window_minutes (a value n is {n}).
\* raised: int(...) raised ValueError and the function did not return.
NormalizeSms(text) ==
    LET t == Strip(text)
        process == FirstMatch(PROCESS_SYNONYMS, t)
        m == Group1(ERROR_CODE_PAT, t)
        code == IF m.found THEN [k \in 1..Len(m.text) |-> Upper(m.text[k])] ELSE <<>>
        mc == Group1(COUNT_PAT, t)
        mh == Group1(HOURS_PAT, t)
        mm == Group1(MINS_PAT, t)
        minutes == (IF mh.found THEN IntOf(mh.text) * 60 ELSE 0)
                       + (IF mm.found THEN IntOf(mm.text) ELSE 0)
        fallback ==
            IF process = "ACTIVATION"
                   /\ (Contains(t, <<"SIL", "PAE">>) \/ Contains(t, <<"OH", "RYU">>))
            THEN <<"A", "C", "T", "_", "F", "A", "I", "L">>
            ELSE IF process = "PROVISIONING"
                   /\ (Contains(t, <<"BAN", "YEONG", " ", "JI", "YEON">>)
                          \/ Contains(t, <<"JI", "YEON">>))
            THEN <<"H", "L", "R", "_", "D", "E", "L", "A", "Y">>
            ELSE <<>>
    IN IF \/ mc.found /\ ~IsNumber(mc.text)
          \/ mh.found /\ ~IsNumber(mh.text)
          \/ mm.found /\ ~IsNumber(mm.text)
       THEN [raised |-> TRUE]
       ELSE [raised |-> FALSE,
             operator |-> FirstMatch(OPERATOR_SYNONYMS, t),
             direction |-> FirstMatch(DIRECTION_SYNONYMS, t),
             process |-> process,
             error_code |-> IF code # <<>> THEN code ELSE fallback,
             count |-> IF mc.found THEN {IntOf(mc.text)} ELSE {},
             window_minutes |-> IF minutes = 0 THEN {} ELSE {minutes},
             raw |-> t]

\* the text of the specification's example:
\* "건수:10, 최근 1시간 20분 내 포트아웃 ... BF1099"
ExampleSms ==
    <<"GEON", "SU", ":", "1", "0", ",", " ", "CHOE", "GEUN", " ", "1", "SI", "GAN",
      " ", "2", "0", "BUN", " ", "NAE", " ", "PO", "TEU", "AH", "UT", " ", ".", ".",
      ".", " ", "B", "F", "1", "0", "9", "9">>

\* texts in which several patterns of one list match, or a keyword sits inside a
\* longer word, and texts that the counting patterns match as they are compiled
FixedSms ==
    {ExampleSms,
     <<"K", "T", " ", "S", "K", "T">>, <<"S", "K", "T", " ", "K", "T">>,
     <<"S", "K", "T">>, <<"k", "t">>, <<"U", "+">>, <<"L", "G", "U", "+">>,
     <<"PO", "TEU", "IN", " ", "PO", "TEU", " ", "AH", "UT">>,
     <<"PO", "TEU", " ", " ", "IN">>,
     <<"BON", "IN", "IN", "JEUNG">>, <<"IN", "JEUNG">>,
     <<"YO", "GEUM", "JE", " ", "CHWI", "SO">>,
     <<"GAE", "TONG", " ", "SIL", "PAE">>,
     <<"H", "L", "R", " ", "JI", "YEON">>,
     <<"GEON", "SU", Backslash, Backslash, "d">>,
     <<Backslash, "d", Backslash, Backslash, "u", "B", "D", "8", "4">>}

\* the characters of the short texts
ShortChars == {"GAE", "TONG", "CHWI", "SO", " "}

\* normalize_sms applied to a text.  The function keeps no state: norm holds the one
\* call that is looked at.
Normalize ==
    /\ norm = NoNorm
    /\ \E text \in FixedSms \cup UNION {[1..k -> ShortChars] : k \in 0..MaxText} :
          norm' = [fn |-> "normalize", text |-> text, res |-> NormalizeSms(text)]
    /\ UNCHANGED <<boot, STORE, sms, INBOX, _next_id, _inbox_lock, _subscribers,
                   queues, conns, tasks, cur, recent, epoch, ingested, published,
                   spent, parked, pipeVars, gone, saved, config, trunc, page>>

\* INFOBIP_HOST and INFOBIP_APIKEY are set in the environment of the process
InfobipConfigured == TRUE

\* if _NOTIFY_MSISDN: sms_text = _build_summary_sms(answer, ctx_items)
NotifyCheck ==
    /\ \E i \in 1..Len(pipes) :
          /\ pipes[i].pc = "notify"
          /\ pipes' = IF _NOTIFY_MSISDN # <<>>
                      THEN [pipes EXCEPT ![i].pc = "send", ![i].ran = Append(@, "NOTIFY")]
                      ELSE [pipes EXCEPT ![i].pc = "back"]
    /\ PipeFrame
    /\ UNCHANGED <<analysis, _NOTIFY_MSISDN, sent>>

\* variant: the request is prepared whatever the recipient is
SendUnchecked ==
    /\ \E i \in 1..Len(pipes) :
          /\ pipes[i].pc = "send"
          /\ pipes' = [pipes EXCEPT ![i].pc = "post", ![i].to = Strip(_NOTIFY_MSISDN)]
    /\ PipeFrame
    /\ UNCHANGED <<analysis, _NOTIFY_MSISDN, sent>>

\* _send_infobip_sms(_NOTIFY_MSISDN, sms_text): the global is read again for the
\* argument; to = (to_msisdn or "").strip(); an empty recipient or a missing host or
\* key returns None before any request
Send ==
    /\ \E i \in 1..Len(pipes) :
          /\ pipes[i].pc = "send"
          /\ LET to == Strip(_NOTIFY_MSISDN)
             IN pipes' = IF to = <<>> \/ ~InfobipConfigured
                         THEN [pipes EXCEPT ![i].pc = "back"]
                         ELSE [pipes EXCEPT ![i].pc = "post", ![i].to = to]
    /\ PipeFrame
    /\ UNCHANGED <<analysis, _NOTIFY_MSISDN, sent>>

\* _send_infobip_sms: r = requests.post(..., timeout=10) to the recipient the call
\* has read.  ok = FALSE: the request failed (an error status returns None, a
\* transport error is caught by the except around the step).
Post ==
    /\ \E i \in 1..Len(pipes), ok \in BOOLEAN :
          /\ pipes[i].pc = "post"
          /\ sent' = Append(sent, [to |-> pipes[i].to, sms |-> pipes[i].sms])
          /\ pipes' = [pipes EXCEPT
                          ![i].pc = IF ok THEN "back" ELSE AfterFailure("NOTIFY"),
                          ![i].sends = @ + 1,
                          ![i].failed = IF ok THEN @ ELSE @ \cup {"NOTIFY"}]
    /\ PipeFrame
    /\ UNCHANGED <<analysis, _NOTIFY_MSISDN>>

\* _auto_analyze, back on the loop with aid:
\* if aid: await _broadcast({"type": "analysis", "id": aid})
PublishAnalysis(failing) ==
    /\ LoopFree
    /\ \E i \in 1..Len(pipes) :
          /\ pipes[i].pc = "back"
          /\ pipes' = [pipes EXCEPT ![i].pc = "done"]
          /\ IF pipes[i].aid # None
             THEN LET r == BroadcastTo(_subscribers, queues,
                                       Event("analysis", pipes[i].aid), failing)
                  IN /\ queues' = r.queues
                     /\ _subscribers' = r.subscribers
                     /\ published' = Append(published, Event("analysis", pipes[i].aid))
             ELSE UNCHANGED <<queues, _subscribers, published>>
    /\ UNCHANGED <<boot, STORE, sms, INBOX, _next_id, _inbox_lock, conns, tasks, cur,
                   recent, epoch, ingested, spent, parked, analysis, _NOTIFY_MSISDN,
                   sent, frames, auxVars>>

\* the recipient field of a request to set_notify_config: absent (or falsy), a
\* string, or a JSON value that is no string (a number)
Recipients ==
    {[kind |-> "missing"], [kind |-> "number"]}
        \cup {[kind |-> "str", val |-> v] :
                 v \in {<<>>, <<" ">>, <<"8">>, <<" ", "8", " ">>}}

\* (rec or "").strip(); a number has no strip and raises
Stripped(rec) == IF rec.kind = "str" THEN Strip(rec.val) ELSE <<>>

\* set_notify_config: _NOTIFY_MSISDN = (rec or "").strip(), answered ok; an
\* exception is answered 400 and leaves the recipient
SetNotifyConfig ==
    /\ Serving /\ LoopFree
    /\ \E rec \in Recipients :
          /\ _NOTIFY_MSISDN' = IF rec.kind = "number" THEN _NOTIFY_MSISDN
                                ELSE Stripped(rec)
          /\ config' = IF rec.kind = "number" THEN [config EXCEPT !.refused = TRUE]
                       ELSE [rec |-> rec, called |-> TRUE, refused |-> FALSE]
    /\ UNCHANGED <<boot, STORE, sms, INBOX, _next_id, _inbox_lock, _subscribers, queues,
                   conns, tasks, cur, recent, epoch, ingested, published, spent, parked,
                   pipes, analysis, sent, frames, gone, saved, trunc,
                   norm, page>>

\* get_notify_config: the recipient and enabled
GetNotifyConfig ==
    [recipient |-> _NOTIFY_MSISDN,
     enabled |-> _NOTIFY_MSISDN # <<>> /\ InfobipConfigured]

\* add_to_inbox is at one of its awaits (async with _inbox_lock, await _broadcast)
\* and the loop switches away from it
Park ==
    /\ cur.pc \in {"lock", "bcast"}
    /\ Len(parked) < MaxParked
    /\ parked' = Append(parked, cur)
    /\ cur' = Idle
    /\ UNCHANGED <<boot, STORE, sms, INBOX, _next_id, _inbox_lock, _subscribers,
                   queues, conns, tasks, recent, epoch, ingested, published,
                   spent, pipeVars, auxVars>>

\* the loop switches back to a suspended handler
Resume ==
    /\ LoopFree
    /\ \E i \in 1..Len(parked) :
          /\ cur' = parked[i]
          /\ parked' = SubSeq(parked, 1, i - 1) \o SubSeq(parked, i + 1, Len(parked))
    /\ UNCHANGED <<boot, STORE, sms, INBOX, _next_id, _inbox_lock, _subscribers,
                   queues, conns, tasks, recent, epoch, ingested, published,
                   spent, pipeVars, auxVars>>

\* the process ends and is started again: the module-level state is rebuilt
\* (lines 30-38), the database file stays
Restart ==
    /\ LoopFree
    /\ epoch < MaxRestarts
    /\ epoch' = epoch + 1
    /\ boot' = "pending"
    /\ STORE' \in BOOLEAN
    /\ INBOX' = <<>>
    /\ _next_id' = 1
    /\ _inbox_lock' = FALSE
    /\ _subscribers' = <<>>
    /\ queues' = [q \in Queues |-> <<>>]
    /\ conns' = [q \in Queues |-> FALSE]
    /\ tasks' = <<>>
    /\ cur' = Idle
    /\ parked' = <<>>
    /\ pipes' = <<>>
    /\ _NOTIFY_MSISDN' = <<>>
    /\ sent' = <<>>
    /\ frames' = [q \in Queues |-> <<>>]
    /\ recent' = NoRecent
    /\ published' = <<>>
    /\ gone' = {}
    /\ config' = NoConfig
    /\ UNCHANGED <<sms, analysis, ingested, spent, saved, trunc, norm, page>>

\* the steps of inbound_sms and add_to_inbox
Ingest ==
    \/ ReceiveJson
    \/ JsonElement
    \/ JsonItem
    \/ ReceiveForm
    \/ ReceiveRaw
    \/ Acquire
    \/ Critical
    \/ Schedule
    \/ Respond

\* Ingestion, recovery and restart.  asyncio.Queue() has no maxsize, so put_nowait
\* raises for no queue.
Next ==
    \/ InitNextIdFromStore
    \/ Ingest
    \/ Broadcast({})
    \/ Restart

Spec == Init /\ [][Next]_vars

\* The recent-messages query over ingestion (form path), recovery and restart
NextQuery ==
    \/ InitNextIdFromStore
    \/ ReceiveForm
    \/ Acquire
    \/ Critical
    \/ Broadcast({})
    \/ Schedule
    \/ Respond
    \/ GetRecent
    \/ Restart

SpecQuery == Init /\ [][NextQuery]_vars

\* The recent-messages query with every kind of limit, over ingestion (form path)
NextLimits ==
    \/ InitNextIdFromStore
    \/ ReceiveForm
    \/ Acquire
    \/ Critical
    \/ Broadcast({})
    \/ Schedule
    \/ Respond
    \/ GetRecentAny

SpecLimits == Init /\ [][NextLimits]_vars

\* _broadcast taken as a function of the subscriber list and of the outcome of each
\* put_nowait: any set of the registered queues may refuse the event
BroadcastAny == \E failing \in SUBSET Range(_subscribers) : Broadcast(failing)

\* The fan-out over stream connections, under ingestion (form and raw path)
NextFanout ==
    \/ InitNextIdFromStore
    \/ (Len(published) < MaxEvents /\ ReceiveForm)
    \/ (Len(published) < MaxEvents /\ ReceiveRaw)
    \/ Acquire
    \/ Critical
    \/ BroadcastAny
    \/ Schedule
    \/ Respond
    \/ Subscribe
    \/ Disconnect

SpecFanout == Init /\ [][NextFanout]_vars

\* Concurrent add_to_inbox calls (raw path), interleaved at their awaits,
\* over recovery and restart
NextOverlap ==
    \/ InitNextIdFromStore
    \/ ReceiveRaw
    \/ Acquire
    \/ Critical
    \/ Broadcast({})
    \/ Schedule
    \/ Respond
    \/ Park
    \/ Resume
    \/ Restart

SpecOverlap == Init /\ [][NextOverlap]_vars

\* The analysis pipeline over ingestion: the tasks start on the loop, their steps run
\* on worker threads beside the loop, the result is published back on the loop
NextPipeline ==
    \/ InitNextIdFromStore
    \/ (ingested < MaxPipes /\ ReceiveJson)
    \/ JsonElement
    \/ (ingested < MaxPipes /\ JsonItemObject)
    \/ JsonItemEnd
    \/ (ingested < MaxPipes /\ ReceiveRaw)
    \/ Acquire
    \/ Critical
    \/ Broadcast({})
    \/ Schedule
    \/ ScheduleRaises
    \/ Respond
    \/ PipeStart
    \/ Retrieve
    \/ Generate
    \/ Persist
    \/ NotifyCheck
    \/ Send
    \/ Post
    \/ PublishAnalysis({})
    \/ SetNotifyConfig

SpecPipeline == Init /\ [][NextPipeline]_vars

\* The event stream over ingestion (raw path) and the analysis pipeline
NextStream ==
    \/ InitNextIdFromStore
    \/ (ingested < MaxPipes /\ ReceiveRaw)
    \/ Acquire
    \/ Critical
    \/ Broadcast({})
    \/ Schedule
    \/ Respond
    \/ PipeStart
    \/ Retrieve
    \/ Generate
    \/ Persist
    \/ NotifyCheck
    \/ PublishAnalysis({})
    \/ Subscribe
    \/ Disconnect
    \/ Emit

SpecStream == Init /\ [][NextStream]_vars

\* The analysis table under calls of save_analysis, with and without an id
NextAnalysis ==
    \/ InitNextIdFromStore
    \/ SaveAnalysisCall

SpecAnalysis == Init /\ [][NextAnalysis]_vars

\* _truncate_utf8 and _build_summary_sms as functions of their arguments
NextSummary ==
    \/ Truncate
    \/ BuildSummary

SpecSummary == Init /\ [][NextSummary]_vars

\* Ingestion of messages that carry a value of receivedAt (form and JSON path)
NextStamps ==
    \/ InitNextIdFromStore
    \/ ReceiveFormStamped
    \/ ReceiveJson
    \/ JsonElement
    \/ JsonItemStamped
    \/ JsonItemEnd
    \/ Acquire
    \/ Critical
    \/ Broadcast({})
    \/ Schedule
    \/ Respond

SpecStamps == Init /\ [][NextStamps]_vars

\* The analysis table under saves at several times and reads of its pages
NextPages ==
    \/ SaveAnalysisAt
    \/ GetAnalysisPageCall

SpecPages == Init /\ [][NextPages]_vars

\* normalize_sms as a function of its argument
NextNormalize == Normalize

SpecNormalize == Init /\ [][NextNormalize]_vars

\* the steps of a handler the loop is running
HandlerStep == Acquire \/ Critical \/ Broadcast({}) \/ Schedule \/ Respond

\* The life of the stream connections under ingestion (raw path): clients come and
\* go, generators end
NextConn ==
    \/ InitNextIdFromStore
    \/ (Len(published) < MaxEvents /\ ReceiveRaw)
    \/ Acquire
    \/ Critical
    \/ Broadcast({})
    \/ Schedule
    \/ Respond
    \/ Subscribe
    \/ ClientGone
    \/ Disconnect

\* The loop goes on running the coroutine it has started, and a generator whose
\* client is gone reaches its next is_disconnected() (q.get() returns or times out
\* after 30 s) and ends.
SpecConn ==
    /\ Init
    /\ [][NextConn]_vars
    /\ WF_vars(HandlerStep)
    /\ \A q \in Queues : WF_vars(q \in gone /\ Close(q))

\* The event stream under ingestion (form path): connections open and end, the generators
\* emit what their queues hold and a keep-alive when a wait times out
NextEvents ==
    \/ InitNextIdFromStore
    \/ (Len(published) < MaxEvents /\ ReceiveFormOf({"a"}, {MissingStamp}))
    \/ Acquire
    \/ Critical
    \/ Broadcast({})
    \/ Schedule
    \/ Respond
    \/ (Cardinality({q \in Queues : conns[q]}) < MaxOpen /\ Subscribe)
    \/ Disconnect
    \/ Emit
    \/ Heartbeat

\* The loop goes on running the coroutine it has started, and it resumes a generator
\* whose queue holds an event: q.get() returns as soon as the loop is free.
SpecEvents ==
    /\ Init
    /\ [][NextEvents]_vars
    /\ WF_vars(HandlerStep)
    /\ \A q \in Queues : WF_vars(EmitOn(q))

(* ------------------------------- claims ------------------------------- *)
IdsOf(inbox) == {inbox[j].id : j \in 1..Len(inbox)}

PersistedIds == {r.id_num : r \in sms}

\* a step in which add_to_inbox assigns an id (the row is appended to INBOX)
Assigns == Len(INBOX') = Len(INBOX) + 1

AssignedId == INBOX'[Len(INBOX')].id

\* the ids whose durable write raised in the running process
SpentHere == {p[2] : p \in {x \in spent : x[1] = epoch}}

\* the add_to_inbox calls that hold an id and have not returned
InFlight ==
    {f \in {cur} \cup Range(parked) : f.pc \in {"bcast", "sched"}}

\* C1: for every interleaving of concurrent add_to_inbox calls in one process, the
\* ids assigned are consecutive from the value k+1 the counter had before the first of
\* them: the j-th id is k+j, none is assigned twice, none is skipped, the counter
\* stands at k+N+1, and each call in flight holds an id of its own
C1_IdsConsecutive ==
    /\ \A j \in 1..Len(INBOX) : INBOX[j].id = INBOX[1].id + j - 1
    /\ INBOX # <<>> => _next_id = INBOX[1].id + Len(INBOX)
    /\ \A f \in InFlight : f.id \in IdsOf(INBOX)
    /\ Cardinality({f.id : f \in InFlight}) =
          Len(SelectSeq(parked, LAMBDA f : f.pc \in {"bcast", "sched"}))
              + (IF cur.pc \in {"bcast", "sched"} THEN 1 ELSE 0)

\* two calls overlap, the counter having started above 1: the call that entered first
\* is suspended before its broadcast, the second holds the next id
C1_Witness ==
    /\ parked # <<>>
    /\ parked[1].pc = "bcast"
    /\ cur.pc = "bcast"
    /\ cur.id = parked[1].id + 1
    /\ INBOX[1].id >= 2

\* C2, for a process that has its store: after a restart the first id assigned is
\* max(persisted id_num) + 1, and no id present in the durable sms table is assigned
\* again
C2_NoPersistedIdReused ==
    [][(Assigns /\ STORE) =>
          /\ AssignedId \notin PersistedIds
          /\ (epoch >= 1 /\ INBOX = <<>>) =>
                AssignedId = (IF sms = {} THEN 0 ELSE MaxOf(PersistedIds)) + 1]_vars

C4_SpentIdNeverAssigned ==
    [][(Assigns /\ boot = "ok") => AssignedId \notin {p[2] : p \in spent}]_vars

\* C4 amended: when STORE.add_sms raises, the counter still advances and the id is
\* not assigned again in the same process, the row is kept in INBOX, the sms event is
\* broadcast, the analysis is scheduled when trigger_auto is set, and add_to_inbox
\* returns to its caller
C4_FailedWriteStillIngests ==
    \A i \in SpentHere :
        /\ _next_id > i
        /\ Cardinality({j \in 1..Len(INBOX) : INBOX[j].id = i}) = 1
        /\ \/ cur.id = i /\ cur.pc = "bcast"
           \/ Cardinality({k \in 1..Len(published) : published[k] = Event("sms", i)}) = 1
        /\ (cur.id = i /\ cur.pc = "loop" /\ cur.trigger) =>
              (tasks # <<>> /\ tasks[Len(tasks)] = cur.message)
        /\ cur.id = i => cur.pc \in {"bcast", "sched", "loop"}

\* add_to_inbox has returned for a message whose write raised: row in INBOX, event
\* published, analysis scheduled, a later id assigned to nobody yet
C4_Witness ==
    /\ cur.pc = "loop" /\ cur.trigger /\ ~cur.wrote /\ STORE
    /\ cur.id \in SpentHere
    /\ Len(INBOX) >= 2

\* C5: every row of INBOX with an id above since_id is in the answer of get_recent
\* when the limit is large enough, also when the answer comes from the store
C5_IngestedStaysVisible ==
    [][(recent' # recent /\ recent'.via # "none"
            /\ Min2(recent'.limit, HARD_CAP) >= Len(INBOX)) =>
          \A i \in IdsOf(INBOX) :
              i > recent'.since_id => i \in Range(recent'.ids)]_vars

\* C6: every request to inbound_sms is answered OK
C6_AlwaysOk == cur.pc = "done" => cur.resp = "OK"

\* C7: when the handler of a JSON batch ends, no valid item of the batch is left
\* without an id
C7_SiblingsIngested == (cur.pc = "done" /\ cur.path = "json") => cur.after = 0

\* C8: an analysis task is created only for a message of the JSON path
C8_OnlyJsonSchedules == [][Len(tasks') > Len(tasks) => cur.path = "json"]_vars

\* C9: per message the order is assign, store, broadcast: every published sms event
\* carries the id of a row already in INBOX, no event is published twice, every row is
\* either the one being handled before its broadcast or has its event published, and
\* a write that succeeded is in the table when the event is published
C9_StoreBeforeBroadcast ==
    /\ \A k \in 1..Len(published) : published[k].id \in IdsOf(INBOX)
    /\ \A k1, k2 \in 1..Len(published) : published[k1] = published[k2] => k1 = k2
    /\ \A i \in IdsOf(INBOX) :
          \/ cur.id = i /\ cur.pc = "bcast"
          \/ Event("sms", i) \in Range(published)
    /\ (cur.pc \in {"bcast", "sched"} /\ cur.wrote) =>
          [id_num |-> cur.id, message |-> cur.message] \in sms

C9_Witness ==
    /\ cur.pc = "sched"
    /\ Len(published) >= 2
    /\ published[Len(published)] = Event("sms", cur.id)

\* C10: _broadcast puts the event in the queue of every registered subscriber whose
\* put_nowait does not raise, leaves the other queues as they were, ends normally
\* (the caller goes on) and is never kept waiting
C10_OthersReceive ==
    /\ [](cur.pc = "bcast" => ENABLED BroadcastAny)
    /\ [][(cur.pc = "bcast" /\ cur'.pc # "bcast") =>
            /\ cur'.pc = "sched"
            /\ \A q \in Range(_subscribers) \ Range(cur'.dead) :
                  queues'[q] = Append(queues[q], Event("sms", cur.id))
            /\ \A q \in Queues \ (Range(_subscribers) \ Range(cur'.dead)) :
                  queues'[q] = queues[q]]_vars

\* two registered subscribers, one refused the event, the other has it
C10_Witness ==
    /\ cur.pc = "sched"
    /\ Len(cur.dead) = 1
    /\ Len(_subscribers) >= 1
    /\ \A q \in Range(_subscribers) :
          queues[q] # <<>> /\ queues[q][Len(queues[q])] = Event("sms", cur.id)

\* the step in which add_to_inbox publishes its sms event
Publishes == cur.pc = "bcast" /\ cur'.pc = "sched"

\* the number of times event e is in the sequence s
Count(s, e) == Cardinality({k \in 1..Len(s) : s[k] = e})

NoDuplicate(s) == \A i, j \in 1..Len(s) : s[i] = s[j] => i = j

\* C11: a subscriber whose queue refuses the event at a publish is still in
\* _subscribers after the publish
C11_RefusedStaysSubscribed ==
    [][Publishes => \A q \in Range(_subscribers) : q \in Range(_subscribers')]_vars

\* C12: the queue of a subscriber never holds more events than a fixed capacity
C12_QueueBounded == \A q \in Queues : Len(queues[q]) <= TestedCapacity

\* C13: delivery is at most once per subscriber: no queue is registered twice and a
\* queue is registered only while its connection is open; a publish adds the event
\* exactly once to every registered queue that takes it and to no other queue, so no
\* queue ever holds an event twice; a queue starts empty when it is registered, so a
\* later subscriber holds no earlier event; removing a queue takes out that queue
\* only, and nothing happens when it is no longer in the list
C13_AtMostOncePerSubscriber ==
    /\ [](/\ NoDuplicate(_subscribers)
          /\ \A q \in Range(_subscribers) : conns[q]
          /\ \A q \in Queues : NoDuplicate(queues[q]))
    /\ [][Publishes =>
            \A q \in Queues :
                Count(queues'[q], Event("sms", cur.id)) =
                    IF q \in Range(_subscribers) \ Range(cur'.dead) THEN 1 ELSE 0]_vars
    /\ [][\A q \in Queues :
            /\ (conns'[q] /\ ~conns[q]) =>
                  (queues'[q] = <<>> /\ _subscribers' = Append(_subscribers, q))
            /\ (conns[q] /\ ~conns'[q]) =>
                  _subscribers' = SelectSeq(_subscribers, LAMBDA x : x # q)]_vars

\* two events are published; one open connection has its queue taken out of
\* _subscribers as dead (its removal at disconnect finds it absent), the other
\* subscriber holds both events
C13_Witness ==
    /\ Len(published) = 2
    /\ \E q1, q2 \in Queues :
          /\ q1 # q2
          /\ conns[q1] /\ q1 \notin Range(_subscribers)
          /\ q2 \in Range(_subscribers) /\ Len(queues[q2]) = 2

\* the place of a step in Steps
StepIndex(step) == CHOOSE k \in 1..Len(Steps) : Steps[k] = step

\* C14: in every pipeline run the steps entered are in the order RETRIEVE, GENERATE,
\* PERSIST, NOTIFY, and a step that failed is the last step entered
C14_FailureEndsPipeline ==
    \A i \in 1..Len(pipes) :
        LET ran == pipes[i].ran
        IN /\ \A k1, k2 \in 1..Len(ran) :
                  k1 < k2 => StepIndex(ran[k1]) < StepIndex(ran[k2])
           /\ \A k \in 1..Len(ran) : ran[k] \in pipes[i].failed => k = Len(ran)

\* C15: no exception of a pipeline step or of the scheduling leaves its handler: a
\* task is never ended by an exception, a task with a failed step goes on to its
\* return, and every request whose message was scheduled (or whose scheduling raised)
\* is answered OK
C15_NoExceptionEscapes ==
    /\ \A i \in 1..Len(pipes) :
          /\ pipes[i].pc # "raised"
          /\ pipes[i].failed # {} => pipes[i].pc \in {"notify", "send", "post", "back", "done"}
    /\ cur.pc = "done" => cur.resp = "OK"
    /\ (cur.pc = "loop" /\ cur.id > 0) => cur.id \in IdsOf(INBOX)

\* the task has ended after PERSIST and NOTIFY both raised, and the request is answered
C15_Witness ==
    /\ cur.pc = "done" /\ cur.resp = "OK"
    /\ \E i \in 1..Len(pipes) :
          pipes[i].pc = "done" /\ pipes[i].failed = {"PERSIST", "NOTIFY"}

\* the number of analysis events published with the id aid
AnalysisEvents(aid) ==
    Cardinality({k \in 1..Len(published) :
                    published[k].type = "analysis" /\ published[k].id = aid})

\* PERSIST succeeded in the run p
Saved(p) == STORE /\ "PERSIST" \in Range(p.ran) /\ "PERSIST" \notin p.failed

\* C16: an analysis event is published if and only if PERSIST succeeded: every
\* analysis event carries the id of a row of the analysis table, no event is published
\* twice, a run has an id exactly when its save succeeded and then the row is in the
\* table, a finished run has published one event when its save succeeded and none
\* otherwise, and no run has its event published before it is back on the loop
C16_EventIffPersisted ==
    /\ \A k \in 1..Len(published) :
          published[k].type = "analysis" =>
              \E r \in analysis : r.id = published[k].id
    /\ \A k \in 1..Len(published) :
          published[k].type = "analysis" => AnalysisEvents(published[k].id) = 1
    /\ \A i \in 1..Len(pipes) :
          LET p == pipes[i]
          IN /\ (p.aid # None) <=> Saved(p)
             /\ p.aid # None => \E r \in analysis : r.id = p.aid
             /\ p.pc = "done" => AnalysisEvents(p.aid) = IF Saved(p) THEN 1 ELSE 0
             /\ p.pc # "done" => AnalysisEvents(p.aid) = 0

\* a run has finished with its record saved and its event published, the
\* notification having failed
C16_Witness ==
    \E i \in 1..Len(pipes) :
        /\ pipes[i].pc = "done"
        /\ pipes[i].aid # None
        /\ "NOTIFY" \in pipes[i].failed
        /\ AnalysisEvents(pipes[i].aid) = 1

\* RETRIEVE or GENERATE raised in the run p
FailedEarly(p) == p.failed \cap {"RETRIEVE", "GENERATE"} # {}

\* C17: a run whose RETRIEVE or GENERATE failed saves no record, sends no
\* notification, publishes no event and enters no later step; its steps leave the
\* messages, the id counter, the subscribers and the queues as they were
C17_FailedLeavesNoTrace ==
    /\ [](\A i \in 1..Len(pipes) :
            FailedEarly(pipes[i]) =>
                /\ pipes[i].aid = None
                /\ pipes[i].sends = 0
                /\ pipes[i].pc \in {"back", "done"}
                /\ pipes[i].ran \in {<<"RETRIEVE">>, <<"RETRIEVE", "GENERATE">>})
    /\ [][\A i \in 1..Len(pipes) :
            (FailedEarly(pipes'[i]) /\ pipes'[i] # pipes[i]) =>
                UNCHANGED <<INBOX, sms, _next_id, _subscribers, queues, analysis, sent,
                            published>>]_vars

\* a run has ended after GENERATE failed, with a store and a recipient in place
C17_Witness ==
    /\ STORE /\ _NOTIFY_MSISDN # <<>>
    /\ \E i \in 1..Len(pipes) :
          pipes[i].pc = "done" /\ pipes[i].failed = {"GENERATE"}

\* C18: once its request is answered, every persisted message has exactly one
\* analysis task
C18_OneAttemptPerMessage ==
    LoopFree =>
        \A j \in 1..Len(INBOX) :
            [id_num |-> INBOX[j].id, message |-> INBOX[j].message] \in sms =>
                Cardinality({i \in 1..Len(pipes) : pipes[i].sms = INBOX[j].id}) = 1

\* C19: the acknowledgment does not wait for the pipeline: the steps of the handler
\* after the ingestion are enabled whatever the tasks are doing, and when the handler
\* answers, the task of its message has not been started
C19_AckDoesNotWait ==
    /\ []((cur.pc = "loop" /\ ~cur.inResults) => ENABLED Respond)
    /\ [](cur.pc = "sched" => ENABLED Schedule)
    /\ [][(cur.pc # "done" /\ cur'.pc = "done") =>
            /\ pipes' = pipes
            /\ \A i \in 1..Len(pipes) :
                  pipes[i].sms = cur.id => pipes[i].pc = "new"]_vars

\* the request is answered while the pipeline of its message is at PERSIST
C19_Witness ==
    /\ cur.pc = "done" /\ cur.resp = "OK"
    /\ \E i \in 1..Len(pipes) : pipes[i].pc = "persist"

\* C20: the frame emitted for an event is named after the type of the event and
\* carries its id
C20_FrameNamedAfterType ==
    [][\A q \in Queues :
          (conns[q] /\ conns'[q] /\ Len(frames'[q]) = Len(frames[q]) + 1) =>
              frames'[q][Len(frames'[q])] =
                  Frame(Head(queues[q]).type, Payload(Head(queues[q])))]_vars
\* the n smallest members of S
Smallest(S, n) == {i \in S : Cardinality({j \in S : j < i}) < n}

\* the ids the backend of the last get_recent holds
HeldBy(via) == IF via = "store" THEN PersistedIds ELSE IdsOf(INBOX)

\* C22: get_recent returns the `limit` smallest ids above since_id that its backend
\* holds, on the store path and on the in-memory path
C22_SmallestAboveSince ==
    [][(recent' # recent /\ recent'.via # "none") =>
          Range(recent'.ids) =
              Smallest({i \in HeldBy(recent'.via) : i > recent'.since_id},
                       recent'.limit)]_vars

\* C23: for every limit get_recent returns at most HARD_CAP rows and at most
\* max(limit, 0) rows, on both backends
C23_CapAndLimit ==
    recent.via # "none" =>
        /\ Len(recent.ids) <= HARD_CAP
        /\ Len(recent.ids) <= Max2(recent.limit, 0)

\* the rows of the analysis table with id i
RowsOf(table, i) == {r \in table : r.id = i}

\* C24: a save_analysis with the id of an existing row leaves one row of that id,
\* holding the fields of this save, and the total as it was; a save without an id
\* adds one row under an id no row had; every other row stays as it was
C24_UpsertById ==
    /\ [](\A r1, r2 \in analysis : r1.id = r2.id => r1 = r2)
    /\ [][(saved' # saved /\ saved'.ret # None) =>
            /\ Cardinality(RowsOf(analysis', saved'.ret)) = 1
            /\ \A r \in RowsOf(analysis', saved'.ret) :
                  r.sms = saved'.text /\ r.ts = saved'.ts
            /\ \A r \in analysis : r.id # saved'.ret => r \in analysis'
            /\ saved'.id # None =>
                  /\ saved'.ret = saved'.id
                  /\ RowsOf(analysis, saved'.id) # {} =>
                        AnalysisTotal(analysis') = AnalysisTotal(analysis)
            /\ saved'.id = None =>
                  /\ RowsOf(analysis, saved'.ret) = {}
                  /\ AnalysisTotal(analysis') = AnalysisTotal(analysis) + 1]_vars

\* a row saved without an id was saved again under its id with other fields, beside
\* another row
C24_Witness ==
    /\ saved.id = "u1" /\ saved.ret = "u1" /\ saved.text = "b"
    /\ \E r \in analysis : r.id = "u1" /\ r.sms = "b"
    /\ AnalysisTotal(analysis) = 2

\* C25: a row of the sms table, once written, is neither changed nor deleted by any
\* later ingestion, failure or restart
C25_RowsImmutable == [][\A r \in sms : r \in sms']_vars

\* a step in which a send request is issued
Requests == Len(sent') > Len(sent)

\* C26 (as stated): no send request is issued while the recipient is empty, also
\* when set_notify_config clears it between the recipient check and the send
C26_NoRequestWhileEmpty == [][Requests => _NOTIFY_MSISDN # <<>>]_vars

\* C26 (amended): every send request goes to a non-empty recipient, the one that
\* was configured when _send_infobip_sms was called; a run whose call finds the
\* recipient empty issues no request, whatever the earlier check saw
C26_NoRequestToEmpty ==
    /\ [](\A k \in 1..Len(sent) : sent[k].to # <<>>)
    /\ [](\A i \in 1..Len(pipes) :
            /\ pipes[i].sends > 0 => pipes[i].to # <<>>
            /\ pipes[i].pc = "post" => pipes[i].to # <<>>)
    /\ [][\A i \in 1..Len(pipes) :
            (pipes[i].pc = "send" /\ pipes'[i].pc # "send") =>
                /\ sent' = sent
                /\ IF _NOTIFY_MSISDN = <<>>
                   THEN pipes'[i].pc = "back" /\ pipes'[i].sends = 0
                   ELSE pipes'[i].pc = "post" /\ pipes'[i].to = _NOTIFY_MSISDN]_vars
    /\ [][Requests =>
            \E i \in 1..Len(pipes) :
                /\ pipes[i].pc = "post"
                /\ sent' = Append(sent, [to |-> pipes[i].to, sms |-> pipes[i].sms])]_vars

\* a run passed the recipient check, the recipient was cleared before the send, and
\* the run ended without a request
C26_Witness ==
    \E i \in 1..Len(pipes) :
        /\ pipes[i].pc = "done"
        /\ "NOTIFY" \in Range(pipes[i].ran)
        /\ pipes[i].failed = {}
        /\ pipes[i].sends = 0
        /\ sent = <<>>

\* t is r without its leading and trailing whitespace
IsStripOf(t, r) ==
    \E a, b \in 0..Len(r) :
        /\ a + b <= Len(r)
        /\ t = SubSeq(r, a + 1, Len(r) - b)
        /\ \A k \in 1..a : r[k] \in Whitespace
        /\ \A k \in (Len(r) - b + 1)..Len(r) : r[k] \in Whitespace
        /\ t # <<>> => (t[1] \notin Whitespace /\ t[Len(t)] \notin Whitespace)

\* the recipient that the last accepted call of set_notify_config asked for
Asked(t) ==
    IF config.rec.kind = "str" THEN IsStripOf(t, config.rec.val) ELSE t = <<>>

\* C27: after set_notify_config with recipient r, get_notify_config returns r without
\* its surrounding whitespace, the recipient check and the send of every pipeline run
\* that comes afterwards use it, and an empty or missing recipient leaves
\* notification disabled
C27_ConfigTakesEffect ==
    /\ [](config.called =>
            /\ Asked(GetNotifyConfig.recipient)
            /\ Asked(<<>>) => ~GetNotifyConfig.enabled)
    /\ [][config.called =>
            \A i \in 1..Len(pipes) :
                /\ (pipes[i].pc = "notify" /\ pipes'[i].pc # "notify") =>
                      (pipes'[i].pc = "send" <=> ~Asked(<<>>))
                /\ (pipes[i].pc = "notify" /\ pipes'[i].pc # "notify" /\ Asked(<<>>)) =>
                      (pipes'[i].pc = "back" /\ pipes'[i].sends = 0)
                /\ (pipes[i].pc = "send" /\ pipes'[i].pc = "post") =>
                      Asked(pipes'[i].to)]_vars

\* a recipient given with surrounding whitespace is configured and a run has sent
\* its request to the stripped recipient
C27_Witness ==
    /\ config.called /\ ~config.refused
    /\ config.rec = [kind |-> "str", val |-> <<" ", "8", " ">>]
    /\ GetNotifyConfig = [recipient |-> <<"8">>, enabled |-> TRUE]
    /\ \E i \in 1..Len(pipes) : pipes[i].sends = 1 /\ pipes[i].to = <<"8">>

\* the send requests issued for the message with id i
RequestsFor(i) == Cardinality({k \in 1..Len(sent) : sent[k].sms = i})

\* the step in which the send request of run i fails
SendFails(i) == "NOTIFY" \notin pipes[i].failed /\ "NOTIFY" \in pipes'[i].failed

\* C28: a pipeline run issues at most one send request; a failed send is not
\* repeated, leaves the saved record as it is and the run still publishes its
\* analysis event
C28_SingleAttempt ==
    /\ [](\A i \in 1..Len(pipes) :
            /\ pipes[i].sends <= 1
            /\ RequestsFor(pipes[i].sms) <=
                   Cardinality({j \in 1..Len(pipes) : pipes[j].sms = pipes[i].sms})
            /\ "NOTIFY" \in pipes[i].failed =>
                  /\ pipes[i].sends = 1
                  /\ pipes[i].pc \in {"back", "done"}
                  /\ pipes[i].aid # None => \E r \in analysis : r.id = pipes[i].aid
                  /\ (pipes[i].pc = "back" /\ LoopFree) => ENABLED PublishAnalysis({})
                  /\ (pipes[i].pc = "done" /\ pipes[i].aid # None) =>
                        AnalysisEvents(pipes[i].aid) = 1)
    /\ [][\A i \in 1..Len(pipes) :
            /\ SendFails(i) =>
                  /\ analysis' = analysis
                  /\ pipes'[i].aid = pipes[i].aid
                  /\ pipes'[i].pc = "back"
            /\ "NOTIFY" \in pipes[i].failed =>
                  /\ Cardinality({k \in 1..Len(sent') : sent'[k].sms = pipes[i].sms})
                        = RequestsFor(pipes[i].sms)
                  /\ pipes'[i].sends = pipes[i].sends
                  /\ pipes'[i].aid = pipes[i].aid]_vars

\* the one send request of a run failed; the run has finished, its record is in the
\* table and its event is published
C28_Witness ==
    \E i \in 1..Len(pipes) :
        /\ pipes[i].pc = "done"
        /\ pipes[i].failed = {"NOTIFY"}
        /\ pipes[i].sends = 1 /\ Len(sent) = 1
        /\ \E r \in analysis : r.id = pipes[i].aid
        /\ AnalysisEvents(pipes[i].aid) = 1

\* the number of bytes of the UTF-8 encoding of s
RECURSIVE Utf8Len(_)
Utf8Len(s) ==
    IF s = <<>> THEN 0
    ELSE IF Len(s) = 1 THEN Width[s[1]]
    ELSE LET h == Len(s) \div 2
         IN Utf8Len(SubSeq(s, 1, h)) + Utf8Len(SubSeq(s, h + 1, Len(s)))

\* out is a prefix of s made of whole characters
IsPrefix(out, s) == Len(out) <= Len(s) /\ out = SubSeq(s, 1, Len(out))

\* C29: _truncate_utf8 returns a string of at most max_bytes bytes that is a prefix
\* of whole characters of the input, followed or not by the ellipsis (which is there
\* only within the budget); an input within the budget is returned as it is
C29_TruncateWithinBudget ==
    trunc.fn = "truncate" =>
        /\ Utf8Len(trunc.out) <= trunc.max_bytes
        /\ \/ IsPrefix(trunc.out, trunc.s)
           \/ /\ trunc.out # <<>>
              /\ trunc.out[Len(trunc.out)] = ELL
              /\ IsPrefix(SubSeq(trunc.out, 1, Len(trunc.out) - 1), trunc.s)
        /\ Utf8Len(trunc.s) <= trunc.max_bytes => trunc.out = trunc.s
        /\ Utf8Len(trunc.s) > trunc.max_bytes => trunc.out # trunc.s

\* a string over its budget was cut inside a character and the ellipsis was put
\* after the whole characters before the cut
C29_Witness ==
    /\ trunc.fn = "truncate"
    /\ trunc.s = <<"a", "g4", "k3">> /\ trunc.max_bytes = 4
    /\ trunc.out = <<"a", ELL>>

\* C30: a summary whose text is longer than 180 bytes is dispatched ending with the
\* ellipsis and within 180 bytes
C30_TruncatedEndsWithEllipsis ==
    (trunc.fn = "summary" /\ Utf8Len(trunc.s) > SUMMARY_MAX_BYTES) =>
        /\ Utf8Len(trunc.out) <= SUMMARY_MAX_BYTES
        /\ trunc.out # <<>>
        /\ trunc.out[Len(trunc.out)] = ELL

\* C31: normalize_sms of the example text yields direction PORT_OUT, window_minutes
\* 80 and count 10
C31_ExampleNormalized ==
    (norm.fn = "normalize" /\ norm.text = ExampleSms) =>
        /\ ~norm.res.raised
        /\ norm.res.direction = "PORT_OUT"
        /\ norm.res.window_minutes = {80}
        /\ norm.res.count = {10}

\* the patterns of a list that match the text
MatchingIn(list, t) == {k \in 1..Len(list) : Search(list[k].alts, t)}

\* the value of field is that of the lowest matching pattern of list, None without one
LowestWins(list, value, t) ==
    IF MatchingIn(list, t) = {} THEN value = None
    ELSE \E k \in MatchingIn(list, t) :
            /\ list[k].val = value
            /\ \A j \in 1..(k - 1) : j \notin MatchingIn(list, t)

\* C34: for operator, direction and process the first pattern of the ordered list
\* that matches anywhere in the text gives the value, whatever the place or the
\* length of the match; the value is None when no pattern of the list matches
C34_FirstPatternWins ==
    (norm.fn = "normalize" /\ ~norm.res.raised) =>
        /\ LowestWins(OPERATOR_SYNONYMS, norm.res.operator, norm.res.raw)
        /\ LowestWins(DIRECTION_SYNONYMS, norm.res.direction, norm.res.raw)
        /\ LowestWins(PROCESS_SYNONYMS, norm.res.process, norm.res.raw)

\* a text that begins with a word of the sixth process pattern and goes on with a
\* word of the first one is given the value of the first
C34_Witness ==
    /\ norm.fn = "normalize"
    /\ ~norm.res.raised
    /\ norm.res.raw = <<"CHWI", "SO", "GAE", "TONG">>
    /\ MatchingIn(PROCESS_SYNONYMS, norm.res.raw) = {1, 6}
    /\ norm.res.process = "ACTIVATION"
    /\ norm.res.operator = None

\* the fields of a normalization
NormalizedFields ==
    {"operator", "direction", "process", "error_code", "count", "window_minutes"}

\* C33: every analysis record saved by the background pipeline holds the source text,
\* hits, context, answer and timestamp, and its normalized part holds operator,
\* direction, process, error code, count and time window
C33_RecordHoldsNormalization ==
    \A r \in analysis :
        /\ {"sms", "normalized", "hits", "context", "answer", "ts"} \subseteq DOMAIN r
        /\ NormalizedFields \subseteq DOMAIN r.normalized

\* the number of pages of page_size items over n records
PageCount(n, page_size) == (n + page_size - 1) \div page_size

\* the ids of the items of a page
PageIds(items) == {items[k].id : k \in 1..Len(items)}

\* C35: a read of get_analysis_page returns its items by non-increasing ts and the
\* number of distinct ids as total; a page or page size below 1 reads as 1; for the
\* page size of the read, pages 1 to ceil(total / page_size) of the same table hold
\* every record exactly once
C35_PagesPartition ==
    [][(page' # page) =>
          LET size == Max2(1, page'.page_size)
              pages == {[n |-> n, items |-> GetAnalysisPage(analysis, n, size).items] :
                           n \in 1..PageCount(page'.total, size)}
              same == GetAnalysisPage(analysis, Max2(1, page'.page), size).items
          IN /\ \A k \in 1..(Len(page'.items) - 1) :
                   page'.items[k].ts >= page'.items[k + 1].ts
             /\ page'.total = Cardinality({r.id : r \in analysis})
             /\ page'.items = same
             /\ \A p \in pages : p.n = page'.page => page'.items = p.items
             /\ \A p \in pages : NoDuplicate(p.items) /\ p.items # <<>>
             /\ \A p, q \in pages :
                   p.n # q.n => PageIds(p.items) \cap PageIds(q.items) = {}
             /\ \A r \in analysis :
                   \E p \in pages : PageItem(r) \in Range(p.items)
             /\ \A p \in pages : \A it \in Range(p.items) :
                   \E r \in analysis : it = PageItem(r)]_vars

\* the second page of two items was read from a table of three rows, two of them of
\* one time, and holds the one row left
C35_Witness ==
    /\ page.fn = "page" /\ page.page = 2 /\ page.page_size = 2
    /\ page.total = 3 /\ Len(page.items) = 1
    /\ Cardinality(analysis) = 3
    /\ \E r, q \in analysis : r # q /\ r.ts = q.ts

\* the ids given to the messages of add_to_inbox calls that have completed, in this
\* process or an earlier one: those of INBOX, of the stored rows and of the rows whose
\* write failed
EarlierIds == IdsOf(INBOX) \cup PersistedIds \cup {p[2] : p \in spent}

\* C32: ids follow ingestion order: the id a call of add_to_inbox assigns is greater
\* than the id of every message ingested by a call that completed before, the
\* earlier items of the same JSON batch among them
C32_IdsFollowIngestion ==
    [][Assigns =>
          /\ \A i \in EarlierIds : i < AssignedId
          /\ (cur.path = "json" /\ cur.id # 0) => cur.id < AssignedId]_vars

\* the text r names the time the timestamp x names: the same local time, no zone
\* where x has none, else the offset of x (Z is the offset 0)
SameTime(r, x) ==
    /\ r.t = x.t
    /\ IF x.zone = "none" THEN r.zone = "none"
       ELSE r.zone = "offset" /\ r.off = (IF x.zone = "Z" THEN 0 ELSE x.off)

\* the row a step of add_to_inbox appends
NewRow == INBOX'[Len(INBOX')]

\* a call of add_to_inbox goes on to its row whatever value receivedAt had
NeverHeldUp ==
    /\ [](cur.pc = "lock" /\ ~_inbox_lock => ENABLED Acquire)
    /\ [](cur.pc = "crit" => ENABLED Critical)
    /\ [][Assigns => NewRow.id = _next_id]_vars

\* as first stated: every well-formed ISO 8601 timestamp is kept, every other value
\* of receivedAt gives the ingestion time
C36_IsoTimestampKept ==
    /\ NeverHeldUp
    /\ [][Assigns =>
            IF cur.received_at_iso.form \in {"calendar", "ordinal"}
            THEN SameTime(NewRow.received_at, cur.received_at_iso)
            ELSE NewRow.received_at = UtcNow]_vars

\* C36: no value of receivedAt keeps a message from being ingested; a timestamp of
\* calendar date and time, with Z, with an offset or without zone, is kept as the
\* message's received_at, and every other value (missing, empty, no text, no
\* timestamp, an ISO 8601 ordinal date) gives the ingestion time
C36_CalendarTimestampKept ==
    /\ NeverHeldUp
    /\ [][Assigns =>
            IF cur.received_at_iso.form = "calendar"
            THEN SameTime(NewRow.received_at, cur.received_at_iso)
            ELSE NewRow.received_at = UtcNow]_vars

\* a message whose receivedAt ended in Z was ingested after one whose receivedAt was
\* no timestamp: the first has the ingestion time, the second the time given
C36_Witness ==
    /\ Len(INBOX) = 2
    /\ cur.pc = "bcast" /\ cur.id = INBOX[2].id
    /\ cur.received_at_iso = Stamp("calendar", "Z", "t1", 0)
    /\ INBOX[2].received_at = Stamp("calendar", "offset", "t1", 0)
    /\ INBOX[1].received_at = UtcNow

\* the data of the sms frames emitted on the connection of q, in order
Emitted(q) ==
    LET fs == SelectSeq(frames[q], LAMBDA f : f.event = "sms")
    IN [k \in 1..Len(fs) |-> fs[k].data]

\* the data of the frames the events in the queue of q will give
Pending(q) == [k \in 1..Len(queues[q]) |-> Payload(queues[q][k])]

\* the data of the frames of the events published so far, in publish order
PublishedData == [k \in 1..Len(published) |-> Payload(published[k])]

\* the message id a frame's data names
IdOfData(d) == CHOOSE i \in 0..(MaxMsgs + MaxEvents) : ToString(i) = d

C40_QueuedEventuallyEmitted ==
    /\ \A q \in Queues :
          (conns[q] /\ queues[q] # <<>>) ~> (queues[q] = <<>> \/ ~conns[q])
    /\ [][\A q \in Queues :
            (conns[q] /\ conns'[q]) =>
                \/ /\ queues[q] # <<>>
                   /\ queues'[q] = Tail(queues[q])
                   /\ frames'[q] = Append(frames[q],
                                          Frame("sms", Payload(Head(queues[q]))))
                \/ /\ IsPrefix(queues[q], queues'[q])
                   /\ frames'[q] \in {frames[q], Append(frames[q], KeepAlive)}]_vars
    /\ [][\A q \in Queues :
            frames'[q] = Append(frames[q], KeepAlive) =>
                /\ queues' = queues
                /\ _subscribers' = _subscribers
                /\ q \in Range(_subscribers')]_vars

\* a wait timed out while an event lay in the queue, then the event was emitted, and
\* the queue is still registered
C40_Witness ==
    \E q \in Queues :
        /\ conns[q] /\ q \in Range(_subscribers)
        /\ frames[q] = <<Frame("ping", "connected"), KeepAlive, Frame("sms", "1")>>
        /\ queues[q] = <<>>

\* C38: when the store and INBOX hold the same messages, a get_recent returns the set
\* of ids that either backend gives for the same since_id and limit
C38_BackendsAgree ==
    [][(recent' # recent /\ recent'.via # "none" /\ PersistedIds = IdsOf(INBOX)) =>
          /\ Range(recent'.ids)
                 = Range(GetSmsRecent(sms, recent'.since_id,
                                      Min2(recent'.limit, HARD_CAP)))
          /\ Range(recent'.ids)
                 = Range(RecentFromInbox(INBOX, recent'.since_id, recent'.limit))]_vars

\* C39: in a process whose recovery has run, between the critical sections of
\* add_to_inbox: the ids of INBOX are consecutive, _next_id is the largest of them
\* plus 1, and every id_num the process writes to the store is the id of an INBOX row
C39_InboxAndCounterAgree ==
    /\ [](boot # "pending" =>
            /\ \A j \in 1..Len(INBOX) : INBOX[j].id = INBOX[1].id + j - 1
            /\ INBOX # <<>> => _next_id = INBOX[Len(INBOX)].id + 1)
    /\ [][\A r \in sms' \ sms : r.id_num \in IdsOf(INBOX')]_vars
    /\ [][epoch' = epoch => IsPrefix(INBOX, INBOX')]_vars

\* a process that recovered the counter from the store has ingested two messages,
\* the second of which the store did not take
C39_Witness ==
    /\ epoch = 1 /\ boot = "ok"
    /\ Len(INBOX) = 2 /\ INBOX[1].id = 2 /\ _next_id = 4
    /\ INBOX[1].id \in PersistedIds
    /\ INBOX[2].id \notin PersistedIds

\* C21: a queue is in _subscribers exactly while the generator of its stream
\* connection runs: it is registered (once) when the first frame is emitted, no event
\* lies in a queue that is not registered, and once the client is gone the generator
\* ends and the queue is removed.
C21_RegisteredWhileOpen ==
    /\ [](\A q \in Queues :
            /\ conns[q] <=> q \in Range(_subscribers)
            /\ Count(_subscribers, q) <= 1
            /\ frames[q] # <<>> => q \in Range(_subscribers)
            /\ q \notin Range(_subscribers) => queues[q] = <<>>)
    /\ [][\A q \in Queues :
            q \notin Range(_subscribers) /\ q \notin Range(_subscribers')
                => queues'[q] = queues[q]]_vars
    /\ \A q \in Queues : (q \in gone) ~> (q \notin Range(_subscribers))

\* an event was published to the queue of a client that was gone, while the queue of
\* an ended connection stayed out of it
C21_Witness ==
    \E q, r \in Queues :
        /\ q \in gone /\ queues[q] # <<>>
        /\ ~conns[r] /\ r \notin Range(_subscribers)

====
